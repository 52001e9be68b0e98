--------------------------- MODULE PaidCallProofs ---------------------------
(***************************************************************************)
(* Proofs about PaidCall, for every set of calls, services and payments,   *)
(* any of which may fail.                                                  *)
(***************************************************************************)
EXTENDS PaidCall, TotalsProofs, SequenceTheorems

CONSTANTS Schemas, Values, NamesInOrder, SchemaHeight, ValueHeight

\* The SLA engine, which the verify workflow of VerifyWorkflow runs.
Engine == INSTANCE SlaEngine

\* TypeOK but for the value held, whose sign rests on the escrow's solvency.
Typed ==
    /\ handler \in [Calls -> Handler] /\ readable \in [Calls -> BOOLEAN]
    /\ trigger \in [Calls -> Trigger] /\ pending \in [Calls -> Pending]
    /\ answer \in [Calls -> Answer] /\ evidence \in [Calls -> BOOLEAN]
    /\ run \in [Calls -> Run] /\ outcome \in [Calls -> Verdicts \cup {"NONE"}]
    /\ seen \in [Calls -> Statuses \cup {"unseen"}]
    /\ wrote \in [Calls -> BOOLEAN] /\ acked \in [Calls -> BOOLEAN]
    /\ settled \in [Payments -> BOOLEAN]
    /\ standing \in [Services -> {"NONE", "ACTIVE", "SUSPENDED", "DEREGISTERED"}]
    /\ owner \in [Services -> Accounts \cup {Nobody}]
    /\ bond \in [Services -> Nat] /\ credit \in [Accounts -> Nat]
    /\ ruling \in [Calls -> [ruled: BOOLEAN, refund: 0..RefundCap]]

\* What the handler and the object have done, against each other.
ProxyOrder(c) ==
    /\ handler[c] \in {"idle", "admitted"} => trigger[c] = "none"
    /\ trigger[c] = "none" => pending[c] = "unknown"
    /\ trigger[c] \in {"none", "sent"} => run[c] = "none"
    /\ pending[c] = "result" => acked[c]
    /\ acked[c] => pending[c] \in {"result", "lost"}
    /\ handler[c] = "relaying" \/ answer[c] = "relayed" => acked[c]
    /\ answer[c] = "workflow_timeout" => pending[c] \in {"timeout", "lost"} /\ ~acked[c]

\* What the run has done, against what it was given.
RunOrder(c) ==
    /\ run[c] \in {"none", "started"} => outcome[c] = "NONE" /\ seen[c] = "unseen"
    /\ run[c] \in {"none", "started", "judged"} => ~wrote[c] /\ ~ruling[c].ruled
    /\ acked[c] => run[c] = "ended"
    /\ seen[c] = "402" => outcome[c] = "NONE"
    /\ seen[c] = "4xx" /\ ~readable[c] => outcome[c] = "NONE"

\* What stands on Arc, against what the run reported.
LedgerOrder(c) ==
    /\ handler[c] = "admitted" \/ trigger[c] # "none" => standing[ServiceOf[c]] # "NONE"
    /\ wrote[c] => ruling[c].ruled \/ standing[ServiceOf[c]] = "DEREGISTERED"
    /\ ruling[c].ruled => outcome[c] # "NONE"

Order(c) == ProxyOrder(c) /\ RunOrder(c) /\ LedgerOrder(c)

\* The inductive invariant.
IInv == Typed /\ \A c \in Calls : Order(c)

-----------------------------------------------------------------------------
(***************************************************************************)
(* Lemmas.                                                                 *)
(***************************************************************************)

\* The least of two numbers.
LEMMA MinOfTwo ==
    ASSUME NEW a \in Nat, NEW b \in Nat
    PROVE  Min({a, b}) = IF a <= b THEN a ELSE b
<1> DEFINE least == IF a <= b THEN a ELSE b
<1>1. least \in {a, b} /\ \A y \in {a, b} : least <= y
  OBVIOUS
<1>2. \A x \in {a, b} : (\A y \in {a, b} : x <= y) => x = least
  OBVIOUS
<1>3. QED
  BY <1>1, <1>2 DEF Min

\* The least of three numbers.
LEMMA MinOfThree ==
    ASSUME NEW a \in Nat, NEW b \in Nat, NEW c \in Nat
    PROVE  /\ Min({a, b, c}) \in {a, b, c}
           /\ Min({a, b, c}) <= a /\ Min({a, b, c}) <= b /\ Min({a, b, c}) <= c
<1>1. \E x \in {a, b, c} : \A y \in {a, b, c} : x <= y
  <2>1. CASE a <= b /\ a <= c
    BY <2>1
  <2>2. CASE b <= a /\ b <= c
    BY <2>2
  <2>3. CASE c <= a /\ c <= b
    BY <2>3
  <2>4. QED
    BY <2>1, <2>2, <2>3
<1>2. PICK x \in {a, b, c} : x = Min({a, b, c}) /\ \A y \in {a, b, c} : x <= y
  BY <1>1 DEF Min
<1>3. QED
  BY <1>2

\* A refund is within the cap, the payment and the bond.
LEMMA RefundBounds ==
    ASSUME Typed, NEW c \in Calls
    PROVE  /\ Refund(c) \in 0..RefundCap
           /\ Refund(c) <= bond[ServiceOf[c]]
<1>1. /\ RefundCap \in Nat /\ Paid[PaymentOf[c]] \in Nat
      /\ bond[ServiceOf[c]] \in Nat
  BY CallAssumption DEF Typed
<1>2. QED
  BY <1>1, MinOfThree DEF Refund

\* A refund short of the call's due is all the bond still held.
LEMMA ShortRefund ==
    ASSUME Typed, NEW c \in Calls, outcome[c] # "PASS",
           Refund(c) < Min({RefundCap, Paid[PaymentOf[c]]})
    PROVE  Refund(c) = bond[ServiceOf[c]]
<1> DEFINE paid == Paid[PaymentOf[c]]
           left == bond[ServiceOf[c]]
<1>1. RefundCap \in Nat /\ paid \in Nat /\ left \in Nat
  BY CallAssumption DEF Typed
<1>2. Refund(c) = Min({RefundCap, paid, left})
  BY DEF Refund
<1> HIDE DEF paid, left
<1>3. Refund(c) \in {RefundCap, paid, left} /\ Min({RefundCap, paid}) <= RefundCap
      /\ Min({RefundCap, paid}) <= paid
  BY <1>1, <1>2, MinOfTwo, MinOfThree
<1>4. Refund(c) < Min({RefundCap, paid})
  BY DEF paid
<1>5. Min({RefundCap, paid}) \in Nat
  BY <1>1, MinOfTwo
<1>6. Refund(c) = left
  BY <1>1, <1>3, <1>4, <1>5
<1>7. QED
  BY <1>6 DEF left

\* Nothing has happened yet.
LEMMA InitInv == Init => IInv
<1> SUFFICES ASSUME Init PROVE IInv
  OBVIOUS
<1>1. Typed
  BY CallAssumption DEF Init, Typed, Handler, Trigger, Pending, Answer, Run, Statuses, Verdicts,
        Escrow!Init, Escrow!Unruled
<1>2. ASSUME NEW c \in Calls PROVE Order(c)
  BY CallAssumption DEF Init, Order, ProxyOrder, RunOrder, LedgerOrder, Escrow!Init, Escrow!Unruled
<1>3. QED
  BY <1>1, <1>2 DEF IInv

\* The handler is admitted: the service it names stands in the registry.
LEMMA AdmitInv == ASSUME IInv, NEW c \in Calls, Admit(c) PROVE IInv'
<1> USE DEF IInv, Typed, Admit, Advance, Routable, runVars, ledgerVars
<1>1. Typed'
  BY DEF Handler, Trigger, Pending, Answer, Failure, Run
<1>2. ASSUME NEW d \in Calls PROVE Order(d)'
  BY CallAssumption DEF Order, ProxyOrder, RunOrder, LedgerOrder
<1>3. QED
  BY <1>1, <1>2

\* A refusal comes before the trigger.
LEMMA RefuseInv == ASSUME IInv, NEW c \in Calls, Refuse(c) PROVE IInv'
<1> USE DEF IInv, Typed, Refuse, Reply, runVars, ledgerVars
<1>1. Typed'
  BY DEF Handler, Trigger, Pending, Answer, Failure, Run
<1>2. ASSUME NEW d \in Calls PROVE Order(d)'
  BY CallAssumption DEF Order, ProxyOrder, RunOrder, LedgerOrder
<1>3. QED
  BY <1>1, <1>2

\* The trigger is sent for an admitted call only, whose object is new.
LEMMA SendTriggerInv == ASSUME IInv, NEW c \in Calls, SendTrigger(c) PROVE IInv'
<1> USE DEF IInv, Typed, SendTrigger, Advance, runVars, ledgerVars
<1>1. Typed'
  BY DEF Handler, Trigger, Pending, Answer, Failure, Run
<1>2. ASSUME NEW d \in Calls PROVE Order(d)'
  BY CallAssumption DEF Order, ProxyOrder, RunOrder, LedgerOrder
<1>3. QED
  BY <1>1, <1>2

\* An accepted trigger moves the handler on, and nothing else.
LEMMA TriggerAcceptedInv == ASSUME IInv, NEW c \in Calls, TriggerAccepted(c) PROVE IInv'
<1> USE DEF IInv, Typed, TriggerAccepted, Advance, runVars, ledgerVars
<1>1. Typed'
  BY DEF Handler, Trigger, Pending, Answer, Failure, Run
<1>2. ASSUME NEW d \in Calls PROVE Order(d)'
  BY CallAssumption DEF Order, ProxyOrder, RunOrder, LedgerOrder
<1>3. QED
  BY <1>1, <1>2

\* A failed trigger cancels an object that is still open, and no other.
LEMMA TriggerFailsInv == ASSUME IInv, NEW c \in Calls, TriggerFails(c) PROVE IInv'
<1> USE DEF IInv, Typed, TriggerFails, runVars, ledgerVars
<1>1. /\ pending' = pending \/ (Open(c) /\ pending' = [pending EXCEPT ![c] = "error"])
      /\ \E a \in {"trigger_rejected", "run_failed"} :
           handler' = [handler EXCEPT ![c] = "done"] /\ answer' = [answer EXCEPT ![c] = a]
  BY DEF Finish, Reply
<1>2. Typed'
  BY <1>1 DEF Handler, Pending, Answer, Failure
<1>3. ASSUME NEW d \in Calls PROVE Order(d)'
  BY <1>1, CallAssumption DEF Open, Order, ProxyOrder, RunOrder, LedgerOrder
<1>4. QED
  BY <1>2, <1>3

\* The timer ends an object that is still open.
LEMMA TimerFiresInv == ASSUME IInv, NEW c \in Calls, TimerFires(c) PROVE IInv'
<1> USE DEF IInv, Typed, TimerFires, Finish, Open, runVars, ledgerVars
<1>1. Typed'
  BY DEF Handler, Trigger, Pending, Answer, Failure, Run
<1>2. ASSUME NEW d \in Calls PROVE Order(d)'
  BY CallAssumption DEF Order, ProxyOrder, RunOrder, LedgerOrder
<1>3. QED
  BY <1>1, <1>2

\* A lost object is never open again.
LEMMA ObjectLostInv == ASSUME IInv, NEW c \in Calls, ObjectLost(c) PROVE IInv'
<1> USE DEF IInv, Typed, ObjectLost, runVars, ledgerVars
<1>1. Typed'
  BY DEF Handler, Trigger, Pending, Answer, Failure, Run
<1>2. ASSUME NEW d \in Calls PROVE Order(d)'
  BY CallAssumption DEF Order, ProxyOrder, RunOrder, LedgerOrder
<1>3. QED
  BY <1>1, <1>2

\* A failed wait is told from the object's own end.
LEMMA WaitFailsInv == ASSUME IInv, NEW c \in Calls, WaitFails(c) PROVE IInv'
<1> USE DEF IInv, Typed, WaitFails, Reply, runVars, ledgerVars
<1>1. Typed'
  BY DEF Handler, Trigger, Pending, Answer, Failure, Run
<1>2. ASSUME NEW d \in Calls PROVE Order(d)'
  BY CallAssumption DEF Order, ProxyOrder, RunOrder, LedgerOrder
<1>3. QED
  BY <1>1, <1>2

\* The call goes on whether or not its evidence is kept.
LEMMA CacheEvidenceInv == ASSUME IInv, NEW c \in Calls, CacheEvidence(c) PROVE IInv'
<1>1. /\ handler[c] = "waiting" /\ pending[c] = "result"
      /\ handler' = [handler EXCEPT ![c] = "relaying"]
      /\ evidence' \in {evidence, [evidence EXCEPT ![c] = TRUE]}
      /\ UNCHANGED <<answer, readable, trigger, pending, runVars, ledgerVars>>
  BY DEF CacheEvidence, StoreThrows, Advance
<1> USE DEF IInv, Typed, runVars, ledgerVars
<1>2. Typed'
  BY <1>1 DEF Handler
<1>3. ASSUME NEW d \in Calls PROVE Order(d)'
  BY <1>1, CallAssumption DEF Order, ProxyOrder, RunOrder, LedgerOrder
<1>4. QED
  BY <1>2, <1>3

\* What is relayed had arrived.
LEMMA RelayInv == ASSUME IInv, NEW c \in Calls, Relay(c) PROVE IInv'
<1> USE DEF IInv, Typed, Relay, Reply, runVars, ledgerVars
<1>1. Typed'
  BY DEF Handler, Trigger, Pending, Answer, Failure, Run
<1>2. ASSUME NEW d \in Calls PROVE Order(d)'
  BY CallAssumption DEF Order, ProxyOrder, RunOrder, LedgerOrder
<1>3. QED
  BY <1>1, <1>2

\* A dropped connection tells nothing of the call.
LEMMA HandlerLostInv == ASSUME IInv, NEW c \in Calls, HandlerLost(c) PROVE IInv'
<1> USE DEF IInv, Typed, HandlerLost, Reply, runVars, ledgerVars
<1>1. Typed'
  BY DEF Handler, Trigger, Pending, Answer, Failure, Run
<1>2. ASSUME NEW d \in Calls PROVE Order(d)'
  BY CallAssumption DEF Order, ProxyOrder, RunOrder, LedgerOrder
<1>3. QED
  BY <1>1, <1>2

\* A trigger nobody acknowledged starts no run.
LEMMA GatewayAssumesInv == ASSUME IInv, NEW c \in Calls, GatewayAssumes(c) PROVE IInv'
<1> USE DEF IInv, Typed, GatewayAssumes, runVars, ledgerVars
<1>1. Typed'
  BY DEF Handler, Trigger, Pending, Answer, Failure, Run
<1>2. ASSUME NEW d \in Calls PROVE Order(d)'
  BY CallAssumption DEF Order, ProxyOrder, RunOrder, LedgerOrder
<1>3. QED
  BY <1>1, <1>2

\* A refused trigger starts no run.
LEMMA GatewayRefusesInv == ASSUME IInv, NEW c \in Calls, GatewayRefuses(c) PROVE IInv'
<1> USE DEF IInv, Typed, GatewayRefuses, runVars, ledgerVars
<1>1. Typed'
  BY DEF Handler, Trigger, Pending, Answer, Failure, Run
<1>2. ASSUME NEW d \in Calls PROVE Order(d)'
  BY CallAssumption DEF Order, ProxyOrder, RunOrder, LedgerOrder
<1>3. QED
  BY <1>1, <1>2

\* A run that ends early ends before it pushes its result.
LEMMA RunDiesInv == ASSUME IInv, NEW c \in Calls, RunDies(c) PROVE IInv'
<1> USE DEF IInv, Typed, RunDies, runVars, ledgerVars, proxyVars
<1>1. Typed'
  BY DEF Handler, Trigger, Pending, Answer, Failure, Run
<1>2. ASSUME NEW d \in Calls PROVE Order(d)'
  BY CallAssumption DEF Order, ProxyOrder, RunOrder, LedgerOrder
<1>3. QED
  BY <1>1, <1>2

\* A forwarded trigger starts a run that has done nothing yet.
LEMMA GatewayForwardsInv == ASSUME IInv, NEW c \in Calls, GatewayForwards(c) PROVE IInv'
<1> USE DEF IInv, Typed, GatewayForwards, ledgerVars
<1>1. PICK a \in {"accepted", "failed"} : trigger' = [trigger EXCEPT ![c] = a]
  OBVIOUS
<1>2. Typed'
  BY <1>1 DEF Trigger, Run
<1>3. ASSUME NEW d \in Calls PROVE Order(d)'
  <2>1. ProxyOrder(d)'
    BY <1>1 DEF Order, ProxyOrder
  <2>2. RunOrder(d)'
    BY DEF Order, ProxyOrder, RunOrder
  <2>3. LedgerOrder(d)'
    BY <1>1 DEF Order, LedgerOrder
  <2>4. QED
    BY <2>1, <2>2, <2>3 DEF Order
<1>4. QED
  BY <1>2, <1>3

\* What a judgement can be, and where it is none.
LEMMA JudgeOutcome ==
    ASSUME NEW parses \in BOOLEAN, NEW status \in Statuses, NEW kept \in BOOLEAN
    PROVE  /\ Judge(parses, status, kept) \in Verdicts \cup {"NONE"}
           /\ status = "402" => Judge(parses, status, kept) = "NONE"
           /\ status = "4xx" /\ ~parses => Judge(parses, status, kept) = "NONE"
BY DEF Judge, Evaluate, EvaluateStatusOnly, Statuses, Verdicts

\* The provider is called once, and its answer judged once.
LEMMA CallProviderInv == ASSUME IInv, NEW c \in Calls, CallProvider(c) PROVE IInv'
<1> USE DEF IInv, Typed, CallProvider, proxyVars, ledgerVars
<1>1. PICK status \in Statuses, kept \in BOOLEAN, settles \in BOOLEAN :
        /\ settled' = [settled EXCEPT ![PaymentOf[c]] = @ \/ settles]
        /\ seen' = [seen EXCEPT ![c] = status]
        /\ outcome' = [outcome EXCEPT ![c] = Judge(readable[c], status, kept)]
  OBVIOUS
<1> DEFINE judgement == Judge(readable[c], status, kept)
<1>2. /\ judgement \in Verdicts \cup {"NONE"}
      /\ status = "402" => judgement = "NONE"
      /\ status = "4xx" /\ ~readable[c] => judgement = "NONE"
  BY JudgeOutcome
<1>3. outcome' = [outcome EXCEPT ![c] = judgement]
  BY <1>1
<1> HIDE DEF judgement
<1>4. settled' \in [Payments -> BOOLEAN]
  <2>1. (settled[PaymentOf[c]] \/ settles) \in BOOLEAN
    OBVIOUS
  <2>2. QED
    BY <1>1, <2>1
<1>5. Typed'
  BY <1>1, <1>2, <1>3, <1>4 DEF Run
<1>6. ASSUME NEW d \in Calls PROVE Order(d)'
  <2>1. ProxyOrder(d)' /\ LedgerOrder(d)'
    BY <1>3 DEF Order, ProxyOrder, RunOrder, LedgerOrder
  <2>2. RunOrder(d)'
    BY <1>1, <1>2, <1>3 DEF Order, RunOrder
  <2>3. QED
    BY <2>1, <2>2 DEF Order
<1>7. QED
  BY <1>5, <1>6

\* A callback is answered ok exactly when it gave the object its outcome.
LEMMA PushResultInv == ASSUME IInv, NEW c \in Calls, PushResult(c) PROVE IInv'
<1> USE DEF IInv, Typed, PushResult, ledgerVars
<1>0. ~acked[c] /\ pending[c] # "result"
  BY DEF Order, ProxyOrder, RunOrder
<1>1. \/ Open(c) /\ pending' = [pending EXCEPT ![c] = "result"]
                 /\ acked' = [acked EXCEPT ![c] = TRUE]
      \/ pending' = pending /\ acked' = [acked EXCEPT ![c] = FALSE]
      \/ pending' = pending /\ acked' = acked
  <2>1. CASE Open(c)
    BY <2>1 DEF HandleCallback, Finish
  <2>2. CASE ~Open(c)
    <3>1. Open(c) = FALSE
      BY <2>2 DEF Open
    <3>2. QED
      BY <3>1 DEF HandleCallback, Finish
  <2>3. QED
    BY <2>1, <2>2
<1>2. Typed'
  BY <1>1 DEF Pending, Run
<1>3. ASSUME NEW d \in Calls PROVE Order(d)'
  <2>1. ProxyOrder(d)'
    BY <1>0, <1>1 DEF Open, Order, ProxyOrder
  <2>2. RunOrder(d)'
    BY <1>1 DEF Order, RunOrder
  <2>3. LedgerOrder(d)'
    BY DEF Order, LedgerOrder
  <2>4. QED
    BY <2>1, <2>2, <2>3 DEF Order
<1>4. QED
  BY <1>2, <1>3

\* A ruling moves value from one bond to one payer and keeps every type.
LEMMA RuleEffect ==
    ASSUME Typed, NEW c \in Calls, NEW p \in Accounts,
           Escrow!Rule(c, ServiceOf[c], p, Refund(c))
    PROVE  /\ standing' \in [Services -> {"NONE", "ACTIVE", "SUSPENDED", "DEREGISTERED"}]
           /\ owner' = owner /\ bond' \in [Services -> Nat] /\ credit' \in [Accounts -> Nat]
           /\ ruling' \in [Calls -> [ruled: BOOLEAN, refund: 0..RefundCap]]
           /\ ruling'[c].ruled
           /\ \A d \in Calls \ {c} : ruling'[d] = ruling[d]
           /\ \A s \in Services : standing[s] # "NONE" => standing'[s] # "NONE"
           /\ \A s \in Services : standing[s] = "DEREGISTERED" => standing'[s] = "DEREGISTERED"
<1> DEFINE s == ServiceOf[c]
           r == Refund(c)
<1>1. r \in 0..RefundCap /\ r <= bond[s] /\ s \in Services /\ RefundCap \in Nat
  BY RefundBounds, CallAssumption
<1> USE DEF Typed
<1>2. Escrow!Rule(c, s, p, r)
  OBVIOUS
<1> HIDE DEF s, r
<1>3. standing[s] \in {"ACTIVE", "SUSPENDED"}
      /\ standing' = [standing EXCEPT ![s] = IF bond[s] = r THEN "SUSPENDED" ELSE @]
  BY <1>2 DEF Escrow!Rule
<1>4. ruling' = [ruling EXCEPT ![c] = [ruled |-> TRUE, refund |-> r]]
  BY <1>2 DEF Escrow!Rule, Escrow!Ruling
<1>5. bond' \in [Services -> Nat] /\ credit' \in [Accounts -> Nat] /\ owner' = owner
  <2>1. bond' = [bond EXCEPT ![s] = @ - r] /\ credit' = [credit EXCEPT ![p] = @ + r]
        /\ owner' = owner
    BY <1>2 DEF Escrow!Rule
  <2>2. bond[s] - r \in Nat /\ credit[p] + r \in Nat
    BY <1>1
  <2>3. QED
    BY <2>1, <2>2
<1>6. QED
  BY <1>1, <1>3, <1>4, <1>5

\* The verdict is written for a judged call, or nothing is.
LEMMA WriteVerdictInv == ASSUME IInv, NEW c \in Calls, WriteVerdict(c) PROVE IInv'
<1> USE DEF IInv, WriteVerdict, proxyVars
<1> DEFINE Quiet == wrote' = wrote /\ ledgerVars' = ledgerVars
           Declined == /\ outcome[c] # "NONE" /\ ~Recordable(c)
                       /\ wrote' = [wrote EXCEPT ![c] = TRUE] /\ ledgerVars' = ledgerVars
           Ruled == /\ outcome[c] # "NONE" /\ Recordable(c)
                    /\ wrote' = [wrote EXCEPT ![c] = TRUE]
                    /\ Escrow!Rule(c, ServiceOf[c], Payer[PaymentOf[c]], Refund(c))
<1>1. Quiet \/ Declined \/ Ruled
  OBVIOUS
<1>2. ServiceOf[c] \in Services /\ Payer[PaymentOf[c]] \in Accounts
  BY CallAssumption
<1>3. standing[ServiceOf[c]] # "NONE"
  BY DEF Order, ProxyOrder, LedgerOrder
<1>4. CASE Quiet
  <2> USE <1>4 DEF ledgerVars
  <2>1. Typed'
    BY DEF Typed, Run
  <2>2. ASSUME NEW d \in Calls PROVE Order(d)'
    BY DEF Typed, Order, ProxyOrder, RunOrder, LedgerOrder
  <2>3. QED
    BY <2>1, <2>2
<1>5. CASE Declined
  <2> USE <1>5 DEF ledgerVars
  <2>1. Typed'
    BY DEF Typed, Run
  <2>2. ASSUME NEW d \in Calls PROVE Order(d)'
    <3>1. ProxyOrder(d)' /\ RunOrder(d)'
      BY DEF Typed, Order, ProxyOrder, RunOrder
    <3>2. LedgerOrder(d)'
      BY <1>3 DEF Typed, Order, LedgerOrder, Recordable
    <3>3. QED
      BY <3>1, <3>2 DEF Order
  <2>3. QED
    BY <2>1, <2>2
<1>6. CASE Ruled
  <2>1. /\ standing' \in [Services -> {"NONE", "ACTIVE", "SUSPENDED", "DEREGISTERED"}]
        /\ owner' = owner /\ bond' \in [Services -> Nat] /\ credit' \in [Accounts -> Nat]
        /\ ruling' \in [Calls -> [ruled: BOOLEAN, refund: 0..RefundCap]]
        /\ ruling'[c].ruled
        /\ \A d \in Calls \ {c} : ruling'[d] = ruling[d]
        /\ \A s \in Services : standing[s] # "NONE" => standing'[s] # "NONE"
        /\ \A s \in Services : standing[s] = "DEREGISTERED" => standing'[s] = "DEREGISTERED"
    BY <1>2, <1>6, RuleEffect
  <2>2. outcome[c] # "NONE" /\ wrote' = [wrote EXCEPT ![c] = TRUE]
    BY <1>6
  <2> HIDE DEF Quiet, Declined, Ruled
  <2>3. Typed'
    BY <2>1, <2>2 DEF Typed, Run
  <2>4. ASSUME NEW d \in Calls PROVE Order(d)'
    <3>1. ServiceOf[d] \in Services
      BY CallAssumption
    <3>2. ProxyOrder(d)'
      BY DEF Typed, Order, ProxyOrder, RunOrder
    <3>3. RunOrder(d)'
      BY <2>1, <2>2 DEF Typed, Order, RunOrder
    <3>4. LedgerOrder(d)'
      BY <2>1, <2>2, <3>1 DEF Typed, Order, LedgerOrder
    <3>5. QED
      BY <3>2, <3>3, <3>4 DEF Order
  <2>5. QED
    BY <2>3, <2>4
<1>7. QED
  BY <1>1, <1>4, <1>5, <1>6

\* Other uses of the registry rule on nothing and bring no service back.
LEMMA RegistryStepInv == ASSUME IInv, RegistryStep PROVE IInv'
<1> USE DEF IInv, RegistryStep, proxyVars, runVars
<1>1. /\ ruling' = ruling
      /\ standing' \in [Services -> {"NONE", "ACTIVE", "SUSPENDED", "DEREGISTERED"}]
      /\ owner' \in [Services -> Accounts \cup {Nobody}]
      /\ bond' \in [Services -> Nat] /\ credit' \in [Accounts -> Nat]
      /\ \A s \in Services : standing[s] # "NONE" => standing'[s] # "NONE"
      /\ \A s \in Services : standing[s] = "DEREGISTERED" => standing'[s] = "DEREGISTERED"
  <2> USE DEF Typed
  <2>1. CASE \E s \in Services, a \in Accounts : held + Bond <= Supply /\ Escrow!Open(s, a)
    BY <2>1, CallAssumption DEF Escrow!Open
  <2>2. CASE \E s \in Services, v \in 1..Supply : held + v <= Supply /\ Escrow!Fund(s, v)
    BY <2>2, CallAssumption DEF Escrow!Fund
  <2>3. CASE \E s \in Services : Escrow!Close(s)
    BY <2>3 DEF Escrow!Close
  <2>4. CASE \E p \in Accounts, v \in 1..Supply : Escrow!Pay(p, v)
    BY <2>4, CallAssumption DEF Escrow!Pay
  <2>5. QED
    BY <2>1, <2>2, <2>3, <2>4
<1>2. Typed'
  BY <1>1 DEF Typed
<1>3. ASSUME NEW d \in Calls PROVE Order(d)'
  <2>1. ServiceOf[d] \in Services
    BY CallAssumption
  <2>2. ProxyOrder(d)' /\ RunOrder(d)'
    BY <1>1 DEF Order, ProxyOrder, RunOrder
  <2>3. LedgerOrder(d)'
    BY <1>1, <2>1 DEF Order, LedgerOrder
  <2>4. QED
    BY <2>2, <2>3 DEF Order
<1>4. QED
  BY <1>2, <1>3

-----------------------------------------------------------------------------
(***************************************************************************)
(* Theorems.                                                               *)
(***************************************************************************)

\* A stutter.
LEMMA StutterInv == ASSUME IInv, UNCHANGED vars PROVE IInv'
<1> USE DEF IInv, vars, proxyVars, runVars, ledgerVars
<1>1. Typed'
  BY DEF Typed
<1>2. ASSUME NEW d \in Calls PROVE Order(d)'
  BY DEF Order, ProxyOrder, RunOrder, LedgerOrder
<1>3. QED
  BY <1>1, <1>2

\* The step of the proof: every action, of any call, preserves the invariant.
LEMMA NextInv == IInv /\ [Next]_vars => IInv'
<1> SUFFICES ASSUME IInv, [Next]_vars PROVE IInv'
  OBVIOUS
<1>1. CASE RegistryStep
  BY <1>1, RegistryStepInv
<1>2. ASSUME NEW c \in Calls, ProxyStep(c) PROVE IInv'
  BY <1>2, AdmitInv, RefuseInv, SendTriggerInv, TriggerAcceptedInv, TriggerFailsInv,
     TimerFiresInv, ObjectLostInv, WaitFailsInv, CacheEvidenceInv, RelayInv, HandlerLostInv
     DEF ProxyStep
<1>3. ASSUME NEW c \in Calls, RunStep(c) PROVE IInv'
  BY <1>3, GatewayForwardsInv, GatewayAssumesInv, GatewayRefusesInv, CallProviderInv,
     WriteVerdictInv, PushResultInv, RunDiesInv
     DEF RunStep
<1>4. CASE UNCHANGED vars
  BY <1>4, StutterInv
<1>5. QED
  BY <1>1, <1>2, <1>3, <1>4 DEF Next

\* The inductive invariant holds in every state of every behaviour.
THEOREM Invariance == Spec => []IInv
BY InitInv, NextInv, PTL DEF Spec

\* pending-do.js and the callback route: a result answered { ok: true } never
\* ends its call in a timeout.
THEOREM AcknowledgedInTime == Spec => []AcknowledgedNeverTimesOut
<1>1. IInv => AcknowledgedNeverTimesOut
  BY DEF IInv, Order, ProxyOrder, AcknowledgedNeverTimesOut
<1>2. QED
  BY <1>1, Invariance, PTL

\* router.js after the wait: a result the callback route accepted is relayed,
\* whatever becomes of the timer, the evidence store and the Arc transaction,
\* unless the connection, the trigger's answer or the object was lost first.
THEOREM AcceptedIsRelayed == Spec => AcceptedResultIsRelayed
<1> DEFINE Excused(c) == \/ answer'[c] \in {"relayed", "dropped"}
                         \/ handler[c] = "triggering"
                         \/ handler[c] = "waiting" /\ pending[c] = "lost"
           Step == \A c \in Calls : acked[c] /\ answer'[c] # answer[c] => Excused(c)
<1>1. ASSUME IInv, Next PROVE Step
  <2> SUFFICES ASSUME NEW c \in Calls, acked[c], answer'[c] # answer[c]
               PROVE  Excused(c)
    OBVIOUS
  <2>1. /\ handler[c] \notin {"idle", "admitted"}
        /\ handler[c] = "waiting" => pending[c] # "timeout"
    BY <1>1 DEF IInv, Order, ProxyOrder, RunOrder
  <2>2. ~RegistryStep
    BY DEF RegistryStep, proxyVars
  <2>3. ASSUME NEW d \in Calls, RunStep(d) PROVE FALSE
    BY <2>3 DEF RunStep, GatewayForwards, GatewayAssumes, GatewayRefuses, CallProvider,
       WriteVerdict, PushResult, RunDies, proxyVars
  <2>4. PICK d \in Calls : ProxyStep(d)
    BY <1>1, <2>2, <2>3 DEF Next
  <2>5. c = d
    BY <1>1, <2>4 DEF IInv, Typed, ProxyStep, Admit, Refuse, SendTrigger, TriggerAccepted,
       TriggerFails, TimerFires, ObjectLost, WaitFails, CacheEvidence, StoreThrows, Relay,
       HandlerLost, Advance, Reply
  <2>6. CASE Refuse(c)
    BY <2>1, <2>6 DEF Refuse
  <2>7. CASE TriggerFails(c)
    BY <2>7 DEF TriggerFails
  <2>8. CASE WaitFails(c)
    BY <2>1, <2>8 DEF WaitFails
  <2>9. CASE Relay(c) \/ HandlerLost(c)
    BY <1>1, <2>9 DEF IInv, Typed, Relay, HandlerLost, Reply
  <2>10. ASSUME Admit(c) \/ SendTrigger(c) \/ TriggerAccepted(c) \/ TimerFires(c)
                \/ ObjectLost(c) \/ CacheEvidence(c)
         PROVE  FALSE
    BY <2>10 DEF Admit, SendTrigger, TriggerAccepted, TimerFires, ObjectLost, CacheEvidence,
       StoreThrows, Advance
  <2>11. QED
    BY <2>4, <2>5, <2>6, <2>7, <2>8, <2>9, <2>10 DEF ProxyStep
<1>2. IInv /\ [Next]_vars => [Step]_vars
  BY <1>1
<1>3. QED
  BY <1>2, Invariance, PTL DEF Spec, AcceptedResultIsRelayed

\* The relay: what an agent gets back was judged by a run that ended, and the
\* transaction quoted with it recorded a verdict unless the provider had left.
THEOREM RelayedAfterJudgement == Spec => []RelayedWasJudged
<1>1. IInv => RelayedWasJudged
  BY DEF IInv, Order, ProxyOrder, RunOrder, LedgerOrder, RelayedWasJudged
<1>2. QED
  BY <1>1, Invariance, PTL

\* judge.js and the registry: no verdict follows a refused payment, nor a
\* refused request to a service whose SLA could not be read.
THEOREM NoVerdictWithoutDelivery == Spec => []NothingDeliveredNothingJudged
<1>1. IInv => NothingDeliveredNothingJudged
  BY DEF IInv, Order, RunOrder, LedgerOrder, NothingDeliveredNothingJudged
<1>2. QED
  BY <1>1, Invariance, PTL

\* Whoever changes a ruling is the run of its call.
LEMMA OnlyWriteVerdictRules ==
    ASSUME IInv, Next, NEW c \in Calls, ruling'[c].ruled, ~ruling[c].ruled
    PROVE  /\ Recordable(c)
           /\ Escrow!Rule(c, ServiceOf[c], Payer[PaymentOf[c]], Refund(c))
<1> USE DEF runVars, ledgerVars
<1>1. ASSUME RegistryStep PROVE UNCHANGED ruling
  BY <1>1 DEF RegistryStep, Escrow!Open, Escrow!Fund, Escrow!Close, Escrow!Pay
<1>2. ASSUME NEW d \in Calls, ProxyStep(d) PROVE UNCHANGED ruling
  BY <1>2 DEF ProxyStep, Admit, Refuse, SendTrigger, TriggerAccepted, TriggerFails, TimerFires,
     ObjectLost, WaitFails, CacheEvidence, StoreThrows, Relay, HandlerLost
<1>3. ASSUME NEW d \in Calls, RunStep(d), ~WriteVerdict(d) PROVE UNCHANGED ruling
  BY <1>3 DEF RunStep, GatewayForwards, GatewayAssumes, GatewayRefuses, CallProvider, PushResult,
     RunDies
<1>4. ASSUME NEW d \in Calls, WriteVerdict(d), d # c
      PROVE  ruling'[c] = ruling[c]
  <2>1. CASE UNCHANGED ruling
    BY <2>1
  <2>2. CASE Escrow!Rule(d, ServiceOf[d], Payer[PaymentOf[d]], Refund(d))
    BY <1>4, <2>2 DEF Escrow!Rule, IInv, Typed
  <2>3. QED
    BY <1>4, <2>1, <2>2 DEF WriteVerdict
<1>5. WriteVerdict(c)
  BY <1>1, <1>2, <1>3, <1>4 DEF Next
<1>6. QED
  BY <1>5 DEF WriteVerdict

\* The registry's refund: an agent credited less than its call's due gets all
\* that the bond still held, and the service stops routing in the same step.
THEOREM ShortRefundTakesTheBond == Spec => ShortRefundSuspends
<1> DEFINE Due(c) == Min({RefundCap, Paid[PaymentOf[c]]})
           Short(c) == /\ ruling'[c].ruled /\ ~ruling[c].ruled
                       /\ outcome[c] # "PASS" /\ ruling'[c].refund < Due(c)
           Step == \A c \in Calls : Short(c) =>
                     standing'[ServiceOf[c]] = "SUSPENDED" /\ bond'[ServiceOf[c]] = 0
<1>1. ASSUME IInv, Next PROVE Step
  <2> SUFFICES ASSUME NEW c \in Calls, Short(c)
               PROVE  standing'[ServiceOf[c]] = "SUSPENDED" /\ bond'[ServiceOf[c]] = 0
    OBVIOUS
  <2>1. Escrow!Rule(c, ServiceOf[c], Payer[PaymentOf[c]], Refund(c))
    BY <1>1, OnlyWriteVerdictRules
  <2>2. ruling'[c].refund = Refund(c)
    BY <1>1, <2>1 DEF Escrow!Rule, Escrow!Ruling, IInv, Typed
  <2>3. Refund(c) = bond[ServiceOf[c]]
    BY <1>1, <2>2, ShortRefund DEF IInv
  <2>4. ServiceOf[c] \in Services /\ bond[ServiceOf[c]] \in Nat
    BY <1>1, CallAssumption DEF IInv, Typed
  <2>5. standing' = [standing EXCEPT ![ServiceOf[c]] =
                       IF bond[ServiceOf[c]] = Refund(c) THEN "SUSPENDED" ELSE @]
        /\ bond' = [bond EXCEPT ![ServiceOf[c]] = @ - Refund(c)]
    BY <2>1 DEF Escrow!Rule
  <2>6. QED
    BY <1>1, <2>3, <2>4, <2>5 DEF IInv, Typed
<1>2. IInv /\ [Next]_vars => [Step]_vars
  BY <1>1
<1>3. QED
  BY <1>2, Invariance, PTL DEF Spec, ShortRefundSuspends

-----------------------------------------------------------------------------
(***************************************************************************)
(* The value held.  What every use of the ledger does to it, and so the    *)
(* part of the type invariant that Typed leaves out.                       *)
(***************************************************************************)

\* The ledger holds its bonds and its credits, and none of either is put away
\* for a service nobody opened.
LedgerBacked ==
    /\ \A s \in Services : standing[s] = "NONE" => bond[s] = 0
    /\ held = Total(bond, Services) + Total(credit, Accounts)

\* The sums are numbers that cover each of their parts.
LEMMA LedgerCovers ==
    ASSUME Typed
    PROVE  /\ Total(bond, Services) \in Nat
           /\ \A s \in Services : bond[s] \in Nat /\ bond[s] <= Total(bond, Services)
           /\ Total(credit, Accounts) \in Nat
           /\ \A a \in Accounts : credit[a] \in Nat /\ credit[a] <= Total(credit, Accounts)
<1>1. /\ IsFiniteSet(Services) /\ Amounted(bond, Services)
      /\ IsFiniteSet(Accounts) /\ Amounted(credit, Accounts)
  BY CallAssumption DEF Amounted, Typed
<1>2. QED
  BY <1>1, TotalCovers

\* When one bond is rewritten, the bonds move by the difference.
LEMMA BondsMove ==
    ASSUME Typed, NEW s \in Services, NEW b \in Nat, bond' = [bond EXCEPT ![s] = b]
    PROVE  Total(bond', Services) = Total(bond, Services) - bond[s] + b
<1>1. PICK f, g : f = bond /\ g = bond'
  OBVIOUS
<1>2. /\ Amounted(f, Services) /\ Amounted(g, Services) /\ IsFiniteSet(Services)
      /\ g[s] = b /\ \A t \in Services \ {s} : g[t] = f[t]
  BY <1>1, CallAssumption DEF Amounted, Typed
<1>3. Total(g, Services) = Total(f, Services) - f[s] + g[s]
  BY <1>2, TotalChanges
<1>4. QED
  BY <1>1, <1>2, <1>3

\* So do the credits.
LEMMA CreditsMove ==
    ASSUME Typed, NEW p \in Accounts, NEW v \in Nat, credit' = [credit EXCEPT ![p] = v]
    PROVE  Total(credit', Accounts) = Total(credit, Accounts) - credit[p] + v
<1>1. PICK f, g : f = credit /\ g = credit'
  OBVIOUS
<1>2. /\ Amounted(f, Accounts) /\ Amounted(g, Accounts) /\ IsFiniteSet(Accounts)
      /\ g[p] = v /\ \A a \in Accounts \ {p} : g[a] = f[a]
  BY <1>1, CallAssumption DEF Amounted, Typed
<1>3. Total(g, Accounts) = Total(f, Accounts) - f[p] + g[p]
  BY <1>2, TotalChanges
<1>4. QED
  BY <1>1, <1>2, <1>3

\* One bond and one credit are rewritten, and the value held follows.
LEMMA LedgerMoves ==
    ASSUME Typed, LedgerBacked,
           NEW s \in Services, NEW b \in Nat, bond' = [bond EXCEPT ![s] = b],
           \A t \in Services : standing'[t] = "NONE" => standing[t] = "NONE" /\ t # s,
           NEW p \in Accounts, NEW v \in Nat, credit' = [credit EXCEPT ![p] = v],
           held' = held - bond[s] + b - credit[p] + v
    PROVE  LedgerBacked'
<1>1. /\ Total(bond, Services) \in Nat /\ Total(credit, Accounts) \in Nat
      /\ bond[s] \in Nat /\ credit[p] \in Nat
  BY LedgerCovers
<1>2. /\ Total(bond', Services) = Total(bond, Services) - bond[s] + b
      /\ Total(credit', Accounts) = Total(credit, Accounts) - credit[p] + v
  BY BondsMove, CreditsMove
<1>3. held' = Total(bond', Services) + Total(credit', Accounts)
  BY <1>1, <1>2 DEF LedgerBacked
<1>4. \A t \in Services : standing'[t] = "NONE" => bond'[t] = 0
  BY DEF LedgerBacked, Typed
<1>5. QED
  BY <1>3, <1>4 DEF LedgerBacked

\* As LedgerMoves, for a step that leaves the credits alone.
LEMMA BondMoves ==
    ASSUME Typed, LedgerBacked,
           NEW s \in Services, NEW b \in Nat, bond' = [bond EXCEPT ![s] = b],
           \A t \in Services : standing'[t] = "NONE" => standing[t] = "NONE" /\ t # s,
           credit' = credit, held' = held - bond[s] + b
    PROVE  LedgerBacked'
<1>1. /\ Total(bond, Services) \in Nat /\ Total(credit, Accounts) \in Nat /\ bond[s] \in Nat
  BY LedgerCovers
<1>2. Total(bond', Services) = Total(bond, Services) - bond[s] + b
  BY BondsMove
<1>3. held' = Total(bond', Services) + Total(credit', Accounts)
  BY <1>1, <1>2 DEF LedgerBacked
<1>4. \A t \in Services : standing'[t] = "NONE" => bond'[t] = 0
  BY DEF LedgerBacked, Typed
<1>5. QED
  BY <1>3, <1>4 DEF LedgerBacked

\* Opening, funding, closing and paying keep the value held.
LEMMA RegistryStepBacked == ASSUME Typed, LedgerBacked, RegistryStep PROVE LedgerBacked'
<1> USE DEF Typed
<1>1. ASSUME NEW s \in Services, NEW a \in Accounts, Escrow!Open(s, a) PROVE LedgerBacked'
  <2>1. bond[s] = 0
    BY <1>1 DEF Escrow!Open, LedgerBacked
  <2>2. Bond \in Nat /\ bond' = [bond EXCEPT ![s] = Bond] /\ credit' = credit
        /\ \A t \in Services : standing'[t] = "NONE" => standing[t] = "NONE" /\ t # s
    BY <1>1, CallAssumption DEF Escrow!Open
  <2>3. held \in Nat
    BY LedgerCovers DEF LedgerBacked
  <2>4. held' = held - bond[s] + Bond
    BY <1>1, <2>1, <2>2, <2>3 DEF Escrow!Open
  <2>5. QED
    BY <2>2, <2>4, BondMoves
<1>2. ASSUME NEW s \in Services, NEW v \in 1..Supply, Escrow!Fund(s, v) PROVE LedgerBacked'
  <2>1. v \in Nat /\ held \in Nat /\ bond[s] \in Nat
    BY CallAssumption, LedgerCovers DEF LedgerBacked
  <2>2. PICK b \in Nat : b = bond[s] + v
    BY <2>1
  <2>3. bond' = [bond EXCEPT ![s] = b] /\ credit' = credit
        /\ \A t \in Services : standing'[t] = "NONE" => standing[t] = "NONE" /\ t # s
    BY <1>2, <2>2 DEF Escrow!Fund
  <2>4. held' = held - bond[s] + b
    BY <1>2, <2>1, <2>2 DEF Escrow!Fund
  <2>5. QED
    BY <2>3, <2>4, BondMoves
<1>3. ASSUME NEW s \in Services, Escrow!Close(s) PROVE LedgerBacked'
  <2>1. bond' = [bond EXCEPT ![s] = 0] /\ credit' = credit /\ held' = held - bond[s]
        /\ \A t \in Services : standing'[t] = "NONE" => standing[t] = "NONE" /\ t # s
    BY <1>3 DEF Escrow!Close
  <2>2. held \in Nat /\ bond[s] \in Nat
    BY LedgerCovers DEF LedgerBacked
  <2>3. held' = held - bond[s] + 0
    BY <2>1, <2>2
  <2>4. QED
    BY <2>1, <2>3, BondMoves
<1>4. ASSUME NEW p \in Accounts, NEW v \in 1..Supply, Escrow!Pay(p, v) PROVE LedgerBacked'
  <2>2. /\ Total(bond, Services) \in Nat /\ Total(credit, Accounts) \in Nat
        /\ credit[p] \in Nat /\ v \in Nat /\ v <= credit[p]
    BY <1>4, LedgerCovers, CallAssumption DEF Escrow!Pay
  <2>3. PICK rest \in Nat : rest = credit[p] - v
    BY <2>2
  <2>4. credit' = [credit EXCEPT ![p] = rest] /\ bond' = bond /\ standing' = standing
        /\ held' = held - v
    BY <1>4, <2>3 DEF Escrow!Pay
  <2>5. Total(credit', Accounts) = Total(credit, Accounts) - credit[p] + rest
    BY <2>4, CreditsMove
  <2>6. held' = Total(bond', Services) + Total(credit', Accounts)
    BY <2>2, <2>3, <2>4, <2>5 DEF LedgerBacked
  <2>7. QED
    BY <2>4, <2>6 DEF LedgerBacked
<1>5. QED
  BY <1>1, <1>2, <1>3, <1>4 DEF RegistryStep

\* A ruling moves value from a bond to a credit, and what is held stays.
LEMMA RuleBacked ==
    ASSUME Typed, LedgerBacked, NEW c \in Calls, NEW p \in Accounts,
           Escrow!Rule(c, ServiceOf[c], p, Refund(c))
    PROVE  LedgerBacked'
<1> USE DEF Typed
<1>1. PICK s \in Services, r \in Nat : s = ServiceOf[c] /\ r = Refund(c) /\ r <= bond[s]
  BY RefundBounds, CallAssumption
<1>2. Escrow!Rule(c, s, p, r)
  BY <1>1
<1>3. PICK b \in Nat, v \in Nat : b = bond[s] - r /\ v = credit[p] + r
  BY <1>1
<1>4. bond' = [bond EXCEPT ![s] = b] /\ credit' = [credit EXCEPT ![p] = v] /\ held' = held
  BY <1>2, <1>3 DEF Escrow!Rule
<1>5. standing[s] \in {"ACTIVE", "SUSPENDED"}
      /\ standing' = [standing EXCEPT ![s] = IF bond[s] = r THEN "SUSPENDED" ELSE @]
  BY <1>2 DEF Escrow!Rule
<1>6. held \in Nat /\ bond[s] \in Nat /\ credit[p] \in Nat
  BY LedgerCovers DEF LedgerBacked
<1>7. held' = held - bond[s] + b - credit[p] + v
  BY <1>1, <1>3, <1>4, <1>6
<1>8. standing' \in [Services -> {"NONE", "ACTIVE", "SUSPENDED", "DEREGISTERED"}]
      /\ \A t \in Services : standing'[t] = "NONE" => standing[t] = "NONE" /\ t # s
  BY <1>5
<1>9. QED
  BY <1>4, <1>7, <1>8, LedgerMoves

\* The ledger is backed after every step.
LEMMA BackedNext == IInv /\ LedgerBacked /\ [Next]_vars => LedgerBacked'
<1> SUFFICES ASSUME IInv, LedgerBacked, [Next]_vars PROVE LedgerBacked'
  OBVIOUS
<1>1. ASSUME UNCHANGED ledgerVars PROVE LedgerBacked'
  BY <1>1 DEF LedgerBacked, ledgerVars
<1>2. CASE RegistryStep
  BY <1>2, RegistryStepBacked DEF IInv
<1>3. ASSUME NEW c \in Calls, ProxyStep(c) PROVE UNCHANGED ledgerVars
  BY <1>3 DEF ProxyStep, Admit, Refuse, SendTrigger, TriggerAccepted, TriggerFails, TimerFires,
     ObjectLost, WaitFails, CacheEvidence, StoreThrows, Relay, HandlerLost
<1>4. ASSUME NEW c \in Calls, RunStep(c), ~WriteVerdict(c) PROVE UNCHANGED ledgerVars
  BY <1>4 DEF RunStep, GatewayForwards, GatewayAssumes, GatewayRefuses, CallProvider, PushResult,
     RunDies
<1>5. ASSUME NEW c \in Calls, WriteVerdict(c) PROVE LedgerBacked'
  <2>1. Payer[PaymentOf[c]] \in Accounts
    BY CallAssumption
  <2>2. \/ UNCHANGED ledgerVars
        \/ Escrow!Rule(c, ServiceOf[c], Payer[PaymentOf[c]], Refund(c))
    BY <1>5 DEF WriteVerdict
  <2>3. QED
    BY <1>1, <2>1, <2>2, RuleBacked DEF IInv
<1>6. CASE UNCHANGED vars
  BY <1>1, <1>6 DEF vars
<1>7. QED
  BY <1>1, <1>2, <1>3, <1>4, <1>5, <1>6 DEF Next

\* The value held is what the bonds and the credits come to, whoever opens,
\* funds, closes, rules or collects, and in whatever order.
THEOREM LedgerIsBacked == Spec => []LedgerBacked
<1>1. Init => LedgerBacked
  <2> SUFFICES ASSUME Init PROVE LedgerBacked
    OBVIOUS
  <2>1. bond = [s \in Services |-> 0] /\ credit = [a \in Accounts |-> 0] /\ held = 0
    BY DEF Init, Escrow!Init
  <2>2. Total(bond, Services) = 0 /\ Total(credit, Accounts) = 0
    BY <2>1, TotalOfZero
  <2>3. QED
    BY <2>1, <2>2 DEF LedgerBacked
<1>2. QED
  BY <1>1, InitInv, NextInv, BackedNext, PTL DEF Spec

\* Every variable keeps its type, whoever pays or is paid in which order, so
\* that the registry never holds less than nothing.
THEOREM TypeCorrect == Spec => []TypeOK
<1>1. IInv /\ LedgerBacked => TypeOK
  <2> SUFFICES ASSUME IInv, LedgerBacked PROVE TypeOK
    OBVIOUS
  <2>1. held \in Nat
    BY LedgerCovers DEF LedgerBacked, IInv
  <2>2. QED
    BY <2>1 DEF IInv, Typed, TypeOK
<1>2. QED
  BY <1>1, Invariance, LedgerIsBacked, PTL

-----------------------------------------------------------------------------
(***************************************************************************)
(* The registry as this module sees it is the ledger that VerdiktRegistry  *)
(* implements, and the judgement is the one of the SLA engine.             *)
(***************************************************************************)

\* A write of a verdict, if it rules at all, rules the way the ledger does.
LEMMA WritesRuleInTheLedger ==
    ASSUME Typed, NEW c \in Calls, WriteVerdict(c)
    PROVE  [Escrow!Next]_ledgerVars
<1>1. CASE UNCHANGED ledgerVars
  BY <1>1
<1>2. CASE Escrow!Rule(c, ServiceOf[c], Payer[PaymentOf[c]], Refund(c))
  <2>1. ServiceOf[c] \in Services /\ Payer[PaymentOf[c]] \in Accounts /\ Refund(c) \in 0..RefundCap
    BY CallAssumption, RefundBounds
  <2>2. QED
    BY <1>2, <2>1 DEF Escrow!Next
<1>3. QED
  BY <1>1, <1>2, Zenon DEF WriteVerdict

\* Whatever the proxy, the run and the payers do, and however their messages
\* are lost, the registry takes the steps of the abstract ledger and no others.
THEOREM CallsUseTheLedger == Spec => Escrow!Spec
<1>1. Init => Escrow!Init
  BY DEF Init
<1>2. ASSUME IInv, [Next]_vars PROVE [Escrow!Next]_ledgerVars
  <2>1. CASE UNCHANGED vars
    BY <2>1 DEF vars
  <2>2. CASE RegistryStep
    <3>1. 1..Supply \subseteq 0..Supply
      BY CallAssumption
    <3>2. QED
      BY <2>2, <3>1, Zenon DEF RegistryStep, Escrow!Next
  <2>3. ASSUME NEW c \in Calls, ProxyStep(c) PROVE UNCHANGED ledgerVars
    BY <2>3 DEF ProxyStep, Admit, Refuse, SendTrigger, TriggerAccepted, TriggerFails, TimerFires,
       ObjectLost, WaitFails, CacheEvidence, StoreThrows, Relay, HandlerLost
  <2>4. ASSUME NEW c \in Calls, RunStep(c), ~WriteVerdict(c) PROVE UNCHANGED ledgerVars
    BY <2>4 DEF RunStep, GatewayForwards, GatewayAssumes, GatewayRefuses, CallProvider, PushResult,
       RunDies
  <2>5. ASSUME NEW c \in Calls, WriteVerdict(c) PROVE [Escrow!Next]_ledgerVars
    BY <1>2, <2>5, WritesRuleInTheLedger DEF IInv
  <2>6. QED
    BY <1>2, <2>1, <2>2, <2>3, <2>4, <2>5 DEF Next
<1>3. QED
  BY <1>1, <1>2, Invariance, PTL DEF Spec, Escrow!Spec, Escrow!vars, ledgerVars

\* A call is ruled once and for good, by its own run and from what that run
\* judged; a PASS refunds nothing, and no refund is more than was paid.
RulingsAreOfTheRun ==
    \A c \in Calls : ruling'[c] # ruling[c] =>
        /\ ~ruling[c].ruled /\ ruling'[c].ruled
        /\ run[c] = "judged" /\ run'[c] = "written" /\ outcome[c] # "NONE"
        /\ ruling'[c].refund <= Paid[PaymentOf[c]]
        /\ outcome[c] = "PASS" => ruling'[c].refund = 0

LEMMA WritesAreOfTheRun ==
    ASSUME Typed, NEW d \in Calls, WriteVerdict(d)
    PROVE  RulingsAreOfTheRun
<1>1. CASE UNCHANGED ruling
  BY <1>1 DEF RulingsAreOfTheRun
<1>2. CASE /\ outcome[d] # "NONE"
           /\ Recordable(d)
           /\ Escrow!Rule(d, ServiceOf[d], Payer[PaymentOf[d]], Refund(d))
  <2>1. ruling' = [ruling EXCEPT ![d] = [ruled |-> TRUE, refund |-> Refund(d)]] /\ ~ruling[d].ruled
    BY <1>2 DEF Escrow!Rule, Escrow!Ruling
  <2>2. run[d] = "judged" /\ run'[d] = "written"
    BY DEF WriteVerdict, Typed
  <2>3. Refund(d) <= Paid[PaymentOf[d]] /\ (outcome[d] = "PASS" => Refund(d) = 0)
    <3>1. /\ RefundCap \in Nat /\ Paid[PaymentOf[d]] \in Nat
          /\ bond[ServiceOf[d]] \in Nat
      BY CallAssumption DEF Typed
    <3>2. QED
      BY <3>1, MinOfThree DEF Refund
  <2>4. QED
    BY <1>2, <2>1, <2>2, <2>3 DEF RulingsAreOfTheRun, Typed
<1>3. QED
  BY <1>1, <1>2 DEF WriteVerdict, ledgerVars

\* No verdict is overwritten, and none comes from anywhere but the run of its
\* call, however its messages, its handler and its object are lost.
THEOREM RulingsAreFinal == Spec => [][RulingsAreOfTheRun]_vars
<1>1. ASSUME IInv, Next PROVE RulingsAreOfTheRun
  <2> USE DEF runVars, ledgerVars
  <2>1. ASSUME RegistryStep PROVE UNCHANGED ruling
    BY <2>1 DEF RegistryStep, Escrow!Open, Escrow!Fund, Escrow!Close, Escrow!Pay
  <2>2. ASSUME NEW c \in Calls, ProxyStep(c) PROVE UNCHANGED ruling
    BY <2>2 DEF ProxyStep, Admit, Refuse, SendTrigger, TriggerAccepted, TriggerFails, TimerFires,
       ObjectLost, WaitFails, CacheEvidence, StoreThrows, Relay, HandlerLost
  <2>3. ASSUME NEW c \in Calls, RunStep(c), ~WriteVerdict(c) PROVE UNCHANGED ruling
    BY <2>3 DEF RunStep, GatewayForwards, GatewayAssumes, GatewayRefuses, CallProvider, PushResult,
       RunDies
  <2>4. UNCHANGED ruling => RulingsAreOfTheRun
    BY DEF RulingsAreOfTheRun
  <2>5. ASSUME NEW c \in Calls, WriteVerdict(c) PROVE RulingsAreOfTheRun
    BY <1>1, <2>5, WritesAreOfTheRun DEF IInv
  <2>6. QED
    BY <1>1, <2>1, <2>2, <2>3, <2>4, <2>5 DEF Next
<1>2. IInv /\ [Next]_vars => [RulingsAreOfTheRun]_vars
  BY <1>1
<1>3. QED
  BY <1>2, Invariance, PTL DEF Spec

-----------------------------------------------------------------------------
\* What this module keeps of a status.
StatusClass(status) ==
    CASE status = 0 -> "none"
      [] status = 402 -> "402"
      [] status \in 200..299 -> "2xx"
      [] status >= 500 -> "5xx"
      [] OTHER -> "4xx"

\* The judgement of a call by whether its SLA can be applied, by the class of the
\* status and by whether every clause was kept is the judgement of the engine:
\* for any document, response and clauses.
THEOREM JudgesAsTheEngine ==
    ASSUME NEW text, NEW obs, obs.status \in Nat,
           NEW U, text.is = "document" => text.clauses \in Seq(U)
    PROVE  LET engine == Engine!Judgement(text, obs).outcome
               kept == \A i \in DOMAIN text.clauses : Engine!EvaluateClause(text.clauses[i], obs).pass
           IN  Judge(Engine!Parses(text), StatusClass(obs.status), kept)
                 = IF engine = "none" THEN "NONE" ELSE engine
<1> DEFINE status == obs.status
           kept == \A i \in DOMAIN text.clauses : Engine!EvaluateClause(text.clauses[i], obs).pass
           delivery == Engine!EvaluateDelivery(obs)
           results == <<delivery>>
                        \o [i \in DOMAIN text.clauses |-> Engine!EvaluateClause(text.clauses[i], obs)]
<1>1. CASE status = 402
  BY <1>1 DEF Engine!Judgement, Engine!PaymentRefused, Judge, StatusClass
<1>2. CASE status # 402 /\ ~Engine!Parses(text)
  <2>1. Engine!Judgement(text, obs) = Engine!EvaluateStatusOnly(obs)
    BY <1>2 DEF Engine!Judgement, Engine!PaymentRefused
  <2>2. QED
    BY <1>2, <2>1 DEF Engine!EvaluateStatusOnly, Engine!Nothing, Judge, EvaluateStatusOnly, StatusClass
<1>3. CASE status # 402 /\ Engine!Parses(text)
  <2> DEFINE n == Len(text.clauses)
  <2>1. n \in Nat /\ DOMAIN text.clauses = 1..n
    BY <1>3, LenProperties DEF Engine!Parses
  <2>2. Engine!Judgement(text, obs) = Engine!Evaluate(text.clauses, obs)
    BY <1>3 DEF Engine!Judgement, Engine!PaymentRefused
  <2>3. CASE status = 0
    BY <1>3, <2>2, <2>3 DEF Engine!Evaluate, Engine!Nothing, Judge, Evaluate, StatusClass
  <2>4. CASE status # 0
    <3>1. Engine!Evaluate(text.clauses, obs).outcome
            = IF \A i \in DOMAIN results : results[i].pass THEN "PASS" ELSE "FAIL"
      BY <2>4 DEF Engine!Evaluate, Engine!Nothing
    <3>2. (\A i \in DOMAIN results : results[i].pass) <=> (status < 500 /\ kept)
      <4> DEFINE R == {delivery} \cup {Engine!EvaluateClause(text.clauses[i], obs) : i \in 1..n}
                 first == <<delivery>>
                 rest == [i \in 1..n |-> Engine!EvaluateClause(text.clauses[i], obs)]
      <4>1. first \in Seq(R) /\ Len(first) = 1 /\ first[1] = delivery
        OBVIOUS
      <4>2. rest \in Seq(R) /\ Len(rest) = n
        <5>1. rest \in [1..n -> R]
          OBVIOUS
        <5>2. QED
          BY <2>1, <5>1
      <4>3. \A i \in 1..n : rest[i] = Engine!EvaluateClause(text.clauses[i], obs)
        OBVIOUS
      <4>4. results = first \o rest
        BY <2>1
      <4>5. delivery.pass <=> status < 500
        BY <2>4 DEF Engine!EvaluateDelivery, Engine!Nothing
      <4> HIDE DEF R, first, rest, n, results, delivery
      <4>6. /\ Len(first \o rest) = 1 + n /\ first \o rest \in Seq(R)
            /\ \A i \in 1..1 + n : (first \o rest)[i] = IF i <= 1 THEN first[i] ELSE rest[i - 1]
        <5>1. /\ Len(first \o rest) = Len(first) + Len(rest) /\ first \o rest \in Seq(R)
              /\ \A i \in 1..Len(first) + Len(rest) :
                     (first \o rest)[i] = IF i <= Len(first) THEN first[i] ELSE rest[i - Len(first)]
          BY <4>1, <4>2, ConcatProperties
        <5>2. QED
          BY <2>1, <4>1, <4>2, <5>1
      <4>7. DOMAIN results = 1..1 + n
        BY <4>4, <4>6, LenProperties, Zenon
      <4>8. /\ results[1] = delivery
            /\ \A i \in 1..n : results[i + 1] = Engine!EvaluateClause(text.clauses[i], obs)
        <5>1. 1 \in 1..1 + n /\ \A i \in 1..n : i + 1 \in 1..1 + n /\ ~(i + 1 <= 1) /\ (i + 1) - 1 = i
          BY <2>1
        <5>2. (first \o rest)[1] = first[1] /\ \A i \in 1..n : (first \o rest)[i + 1] = rest[i]
          BY <4>6, <5>1
        <5>3. QED
          BY <4>1, <4>3, <4>4, <5>2
      <4>9. (\A i \in 1..1 + n : results[i].pass)
              <=> (results[1].pass /\ \A i \in 1..n : results[i + 1].pass)
        <5>1. \A i \in 1..1 + n : i = 1 \/ (i - 1 \in 1..n /\ (i - 1) + 1 = i)
          BY <2>1
        <5>2. 1 \in 1..1 + n /\ \A i \in 1..n : i + 1 \in 1..1 + n
          BY <2>1
        <5>3. QED
          BY <5>1, <5>2
      <4>10. QED
        BY <2>1, <4>5, <4>7, <4>8, <4>9
    <3> HIDE DEF results, kept
    <3>3. Judge(Engine!Parses(text), StatusClass(status), kept)
            = IF status < 500 /\ kept THEN "PASS" ELSE "FAIL"
      BY <1>3, <2>4 DEF Judge, Evaluate, StatusClass
    <3>4. QED
      BY <2>2, <3>1, <3>2, <3>3 DEF kept
  <2>5. QED
    BY <2>3, <2>4
<1>4. QED
  BY <1>1, <1>2, <1>3
=============================================================================
