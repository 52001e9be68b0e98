------------------------------ MODULE PaidCall ------------------------------
(***************************************************************************)
(* One paid call through Verdikt, from the agent's request to its answer   *)
(* and to the verdict on Arc: the proxy's `verified` handler               *)
(* (proxy/src/router.js), the workflow client (verification.js) and its    *)
(* PendingVerification object (pending-do.js), the trigger gateway         *)
(* (runner/src/gateway.js), the enclave run (cre/workflows/verify) and the *)
(* registry, taken as the escrow it implements (EscrowLedger).             *)
(*                                                                         *)
(* Every await is a place where another actor may move, so the handler,    *)
(* the gateway's answer, the pending object and the run each keep their    *)
(* own state.  Timers may fire whenever their call is outstanding.  The    *)
(* agent's request id is the call itself: `newRequestId` is fresh.         *)
(***************************************************************************)
EXTENDS Naturals, FiniteSets, FiniteSetsExt

CONSTANTS
    Calls,          \* paid requests the agents make
    Services,       \* services an agent can name
    Payments,       \* signed x402 authorizations
    Accounts,       \* providers and payers
    Nobody,         \* address(0)
    ServiceOf,      \* call -> the service it names
    PaymentOf,      \* call -> the payment it carries; a retry carries it again
    Payer,          \* payment -> the account decodePayment returns
    Paid,           \* payment -> the amount paid, in native units
    Unreliable,     \* calls whose messages, timers and processes may fail
    Bond,           \* DEPOSIT_AMOUNT
    RefundCap,      \* FIXED_REFUND
    Supply          \* all the native value there is, the bound on top-ups

ASSUME CallAssumption ==
    /\ IsFiniteSet(Services) /\ IsFiniteSet(Accounts)
    /\ ServiceOf \in [Calls -> Services]
    /\ PaymentOf \in [Calls -> Payments]
    /\ Payer \in [Payments -> Accounts]
    /\ Paid \in [Payments -> Nat]
    /\ Unreliable \subseteq Calls
    /\ Nobody \notin Accounts
    /\ Bond \in Nat \ {0} /\ RefundCap \in 1..Bond /\ Supply \in Nat

VARIABLES
    handler,    \* call -> where `verified` is
    readable,   \* call -> whether the sla text the proxy resolved parses
    trigger,    \* call -> the trigger request and the gateway's answer to it
    pending,    \* call -> its PendingVerification object
    answer,     \* call -> what the agent was told
    evidence,   \* call -> whether its envelope was cached
    run,        \* call -> where the enclave run is
    seen,       \* call -> the status of the provider's response
    outcome,    \* call -> what `judge` decided
    wrote,      \* call -> whether the run saw its Arc transaction succeed
    acked,      \* call -> whether the callback was answered { ok: true }
    settled,    \* payment -> whether the provider has settled it
    standing, owner, bond, ruling, credit, held    \* the registry, as EscrowLedger

proxyVars == <<handler, readable, trigger, pending, answer, evidence>>
runVars == <<run, seen, outcome, wrote, acked, settled>>
ledgerVars == <<standing, owner, bond, ruling, credit, held>>
vars == <<proxyVars, runVars, ledgerVars>>

Escrow == INSTANCE EscrowLedger WITH Requests <- Calls

Handler == {"idle", "admitted", "triggering", "waiting", "relaying", "done"}
Trigger == {"none", "sent", "accepted", "failed"}
Pending == {"unknown", "waiting", "result", "error", "timeout", "lost"}
Failure == {"trigger_rejected", "workflow_timeout", "run_failed"}
Answer == {"none", "refused", "relayed", "dropped"} \cup Failure
Run == {"none", "started", "judged", "written", "ended"}
Verdicts == {"PASS", "FAIL", "DOWN"}
\* Status classes `judge` tells apart; "none" is a transport failure.
Statuses == {"none", "2xx", "402", "4xx", "5xx"}

TypeOK ==
    /\ handler \in [Calls -> Handler] /\ readable \in [Calls -> BOOLEAN]
    /\ trigger \in [Calls -> Trigger] /\ pending \in [Calls -> Pending]
    /\ answer \in [Calls -> Answer] /\ evidence \in [Calls -> BOOLEAN]
    /\ run \in [Calls -> Run] /\ outcome \in [Calls -> Verdicts \cup {"NONE"}]
    /\ seen \in [Calls -> Statuses \cup {"unseen"}]
    /\ wrote \in [Calls -> BOOLEAN] /\ acked \in [Calls -> BOOLEAN]
    /\ settled \in [Payments -> BOOLEAN]
    /\ standing \in [Services -> {"NONE", "ACTIVE", "SUSPENDED", "DEREGISTERED"}]
    /\ owner \in [Services -> Accounts \cup {Nobody}]
    /\ bond \in [Services -> Nat] /\ credit \in [Accounts -> Nat] /\ held \in Nat
    /\ ruling \in [Calls -> [ruled: BOOLEAN, refund: 0..RefundCap]]

Init ==
    /\ handler = [c \in Calls |-> "idle"] /\ readable = [c \in Calls |-> FALSE]
    /\ trigger = [c \in Calls |-> "none"] /\ pending = [c \in Calls |-> "unknown"]
    /\ answer = [c \in Calls |-> "none"] /\ evidence = [c \in Calls |-> FALSE]
    /\ run = [c \in Calls |-> "none"] /\ seen = [c \in Calls |-> "unseen"]
    /\ outcome = [c \in Calls |-> "NONE"]
    /\ wrote = [c \in Calls |-> FALSE] /\ acked = [c \in Calls |-> FALSE]
    /\ settled = [p \in Payments |-> FALSE]
    /\ Escrow!Init

(***************************************************************************)
(* The proxy up to the trigger.                                            *)
(***************************************************************************)

\* Moves the handler on without answering.
Advance(c, stage) == handler' = [handler EXCEPT ![c] = stage] /\ UNCHANGED answer

\* Ends the handler with its answer to the agent.
Reply(c, a) ==
    /\ handler' = [handler EXCEPT ![c] = "done"]
    /\ answer' = [answer EXCEPT ![c] = a]

\* `handleRequest`'s checks of the registry's answer: the service is ACTIVE and
\* its ENS subname belongs to the provider that bonded it.
Routable(s, published) == standing[s] = "ACTIVE" /\ published = owner[s]

\* ENS and then Arc are read; the ENS record is whatever the name holds.
Admit(c) ==
    /\ handler[c] = "idle"
    /\ \E published \in Accounts : Routable(ServiceOf[c], published)
    /\ \E parses \in BOOLEAN : readable' = [readable EXCEPT ![c] = parses]
    /\ Advance(c, "admitted")
    /\ UNCHANGED <<trigger, pending, evidence, runVars, ledgerVars>>

\* Every answer before the trigger: ENS or Arc unreachable, no url, another
\* owner, not ACTIVE, no challenge, undecodable payment.
Refuse(c) ==
    /\ handler[c] \in {"idle", "admitted"}
    /\ Reply(c, "refused")
    /\ UNCHANGED <<readable, trigger, pending, evidence, runVars, ledgerVars>>

\* `verify`: the object is told to wait, then the trigger is sent.  The wait
\* travels inside Cloudflare's network and the trigger leaves it, so the code
\* counts on the object being registered before anything answers.
SendTrigger(c) ==
    /\ handler[c] = "admitted"
    /\ pending' = [pending EXCEPT ![c] = "waiting"]
    /\ trigger' = [trigger EXCEPT ![c] = "sent"]
    /\ Advance(c, "triggering")
    /\ UNCHANGED <<readable, evidence, runVars, ledgerVars>>

(***************************************************************************)
(* The pending object: the first outcome stands.                           *)
(***************************************************************************)

\* Mutant: an object that takes every outcome it is offered.
OpenAlways(c) == pending[c] # "unknown"

\* `#finish` acts only on an object that was registered and has no outcome.
Open(c) == pending[c] = "waiting"

Finish(c, kind) ==
    pending' = IF Open(c) THEN [pending EXCEPT ![c] = kind] ELSE pending

TimerFires(c) ==
    /\ c \in Unreliable /\ Open(c)
    /\ Finish(c, "timeout")
    /\ UNCHANGED <<handler, readable, trigger, answer, evidence, runVars, ledgerVars>>

\* The object keeps nothing in storage: reset, it has never heard of the call,
\* and a fetch that waits on it, or on the answer it was giving, breaks.
ObjectLost(c) ==
    /\ c \in Unreliable /\ pending[c] \in {"waiting", "result", "timeout"}
    /\ pending' = [pending EXCEPT ![c] = "lost"]
    /\ UNCHANGED <<handler, readable, trigger, answer, evidence, runVars, ledgerVars>>

(***************************************************************************)
(* The rest of `verified`.                                                 *)
(***************************************************************************)

TriggerAccepted(c) ==
    /\ handler[c] = "triggering" /\ trigger[c] = "accepted"
    /\ Advance(c, "waiting")
    /\ UNCHANGED <<readable, trigger, pending, evidence, runVars, ledgerVars>>

\* Mutant: the trigger request is sent without a time limit.
TriggerGaveUpOnAnswer(c) == trigger[c] = "failed"

\* The gateway's error, a lost answer, or AbortSignal.timeout: while the
\* request is outstanding the proxy may give up on it whatever became of it.
TriggerGaveUp(c) ==
    \/ trigger[c] = "failed"
    \/ c \in Unreliable /\ trigger[c] \in {"sent", "accepted"}

\* `verify`'s catch: the waiter is cancelled and the call fails; if cancelling
\* fails too, that is the error the agent is told of.
TriggerFails(c) ==
    /\ handler[c] = "triggering" /\ TriggerGaveUp(c)
    /\ \/ Finish(c, "error") /\ Reply(c, "trigger_rejected")
       \/ c \in Unreliable /\ UNCHANGED pending /\ Reply(c, "run_failed")
    /\ UNCHANGED <<readable, trigger, evidence, runVars, ledgerVars>>

\* Whether the run's outcome is one a claim could be about.
Keep(c) == outcome[c] # "NONE"

\* Mutant: what the store throws is not caught, and the call fails with it.
StoreThrowsUncaught(c) == Reply(c, "run_failed")

\* The store throws, or there is none: that is logged, and the call goes on.
StoreThrows(c) == Advance(c, "relaying")

\* The result reached the waiter; its envelope is cached if it is to be kept.
CacheEvidence(c) ==
    /\ handler[c] = "waiting" /\ pending[c] = "result"
    /\ \/ Keep(c) /\ evidence' = [evidence EXCEPT ![c] = TRUE] /\ Advance(c, "relaying")
       \/ Keep(c) /\ StoreThrows(c) /\ UNCHANGED evidence
       \/ ~Keep(c) /\ Advance(c, "relaying") /\ UNCHANGED evidence
    /\ UNCHANGED <<readable, trigger, pending, runVars, ledgerVars>>

\* The payload, its status and the verdict headers go to the agent.
Relay(c) ==
    /\ handler[c] = "relaying"
    /\ Reply(c, "relayed")
    /\ UNCHANGED <<readable, trigger, pending, evidence, runVars, ledgerVars>>

WaitFails(c) ==
    /\ handler[c] = "waiting" /\ pending[c] \in {"timeout", "lost"}
    /\ Reply(c, IF pending[c] = "timeout" THEN "workflow_timeout" ELSE "run_failed")
    /\ UNCHANGED <<readable, trigger, pending, evidence, runVars, ledgerVars>>

\* The isolate ends, or the agent hangs up, with the handler anywhere.
HandlerLost(c) ==
    /\ c \in Unreliable
    /\ handler[c] \in {"admitted", "triggering", "waiting", "relaying"}
    /\ Reply(c, "dropped")
    /\ UNCHANGED <<readable, trigger, pending, evidence, runVars, ledgerVars>>

(***************************************************************************)
(* The gateway.                                                            *)
(***************************************************************************)

\* The simulator takes the trigger and the run starts.  Its acknowledgement may
\* come back as an error, or break, and then so does the gateway's.
GatewayForwards(c) ==
    /\ trigger[c] = "sent"
    /\ run' = [run EXCEPT ![c] = "started"]
    /\ \E a \in {"accepted", "failed"} :
         /\ a = "failed" => c \in Unreliable
         /\ trigger' = [trigger EXCEPT ![c] = a]
    /\ UNCHANGED <<handler, readable, pending, answer, evidence,
                   seen, outcome, wrote, acked, settled, ledgerVars>>

\* No acknowledgement in time: the gateway counts the trigger as accepted, and
\* no run may have started.
GatewayAssumes(c) ==
    /\ c \in Unreliable /\ trigger[c] = "sent"
    /\ trigger' = [trigger EXCEPT ![c] = "accepted"]
    /\ UNCHANGED <<handler, readable, pending, answer, evidence, runVars, ledgerVars>>

\* Unauthorized, malformed, or no simulator to forward to.
GatewayRefuses(c) ==
    /\ c \in Unreliable /\ trigger[c] = "sent"
    /\ trigger' = [trigger EXCEPT ![c] = "failed"]
    /\ UNCHANGED <<handler, readable, pending, answer, evidence, runVars, ledgerVars>>

(***************************************************************************)
(* The enclave run.                                                        *)
(***************************************************************************)

\* `evaluate`: nothing arrived is DOWN, and the delivery clause, which no SLA
\* can waive, fails a 5xx; otherwise the declared clauses decide.
Evaluate(status, kept) ==
    CASE status = "none" -> "DOWN"
      [] status = "5xx" -> "FAIL"
      [] OTHER -> IF kept THEN "PASS" ELSE "FAIL"

\* `evaluateStatusOnly` may decline to produce a verdict.
EvaluateStatusOnly(status) ==
    CASE status = "none" -> "DOWN"
      [] status = "5xx" -> "FAIL"
      [] status = "2xx" -> "PASS"
      [] OTHER -> "NONE"

\* `judge`: a 402 is no delivery to judge, whatever the SLA says.
Judge(parses, status, kept) ==
    IF status = "402" THEN "NONE"
    ELSE IF parses THEN Evaluate(status, kept) ELSE EvaluateStatusOnly(status)

\* The provider may settle the payment whatever it then answers, unless it
\* says it was not paid; it delivers only against a settlement of its own.
ProviderMay(p, status, settles) ==
    /\ settles => ~settled[p] /\ status # "402"
    /\ status = "2xx" => settles

\* The run replays the payment, and judges what came back.
CallProvider(c) ==
    /\ run[c] = "started"
    /\ \E status \in Statuses, kept \in BOOLEAN, settles \in BOOLEAN :
         /\ ProviderMay(PaymentOf[c], status, settles)
         /\ settled' = [settled EXCEPT ![PaymentOf[c]] = @ \/ settles]
         /\ seen' = [seen EXCEPT ![c] = status]
         /\ outcome' = [outcome EXCEPT ![c] = Judge(readable[c], status, kept)]
    /\ run' = [run EXCEPT ![c] = "judged"]
    /\ UNCHANGED <<proxyVars, wrote, acked, ledgerVars>>

\* Mutant: a suspended service's verdicts are declined.
RecordableIfActive(c) == ~ruling[c].ruled /\ standing[ServiceOf[c]] = "ACTIVE"

\* What `_recordVerdict` does not decline.
Recordable(c) ==
    ~ruling[c].ruled /\ standing[ServiceOf[c]] \notin {"NONE", "DEREGISTERED"}

\* Mutant: a refund the bond cannot cover in full is not credited at all.
RefundInFull(c) ==
    LET due == Min({RefundCap, Paid[PaymentOf[c]]}) IN
    IF outcome[c] = "PASS" \/ due > bond[ServiceOf[c]] THEN 0 ELSE due

Refund(c) ==
    IF outcome[c] = "PASS" THEN 0
    ELSE Min({RefundCap, Paid[PaymentOf[c]], bond[ServiceOf[c]]})

\* A judgement without an outcome is never reported; any other is reported
\* once.  The registry declines without reverting, so a transaction that
\* succeeds may have written nothing; one that fails is noted, not thrown.
\* The report is authentic and its gas enough: `onReport` does not revert.
WriteVerdict(c) ==
    /\ run[c] = "judged"
    /\ run' = [run EXCEPT ![c] = "written"]
    /\ \/ /\ outcome[c] # "NONE"
          /\ wrote' = [wrote EXCEPT ![c] = TRUE]
          /\ IF Recordable(c)
             THEN Escrow!Rule(c, ServiceOf[c], Payer[PaymentOf[c]], Refund(c))
             ELSE UNCHANGED ledgerVars
       \/ UNCHANGED <<wrote, ledgerVars>>
    /\ UNCHANGED <<proxyVars, seen, outcome, acked, settled>>

\* `handleCallback`: ok if the object was open for a result, 409 if not.
HandleCallback(c) ==
    /\ Finish(c, "result")
    /\ acked' = [acked EXCEPT ![c] = Open(c)]

\* `finish`: a push that is lost on the way is swallowed by the run.
PushResult(c) ==
    /\ run[c] = "written"
    /\ run' = [run EXCEPT ![c] = "ended"]
    /\ \/ HandleCallback(c)
       \/ c \in Unreliable /\ UNCHANGED <<pending, acked>>
    /\ UNCHANGED <<handler, readable, trigger, answer, evidence,
                   seen, outcome, wrote, settled, ledgerVars>>

\* The run ends early: a missing secret, an unknown chain, a capability whose
\* result throws.
RunDies(c) ==
    /\ c \in Unreliable
    /\ run[c] \in {"started", "judged", "written"}
    /\ run' = [run EXCEPT ![c] = "ended"]
    /\ UNCHANGED <<proxyVars, seen, outcome, wrote, acked, settled, ledgerVars>>

(***************************************************************************)
(* Providers and payers use the registry meanwhile.                        *)
(***************************************************************************)
RegistryStep ==
    /\ \/ \E s \in Services, a \in Accounts : held + Bond <= Supply /\ Escrow!Open(s, a)
       \/ \E s \in Services, v \in 1..Supply : held + v <= Supply /\ Escrow!Fund(s, v)
       \/ \E s \in Services : Escrow!Close(s)
       \/ \E p \in Accounts, v \in 1..Supply : Escrow!Pay(p, v)
    /\ UNCHANGED <<proxyVars, runVars>>

ProxyStep(c) ==
    \/ Admit(c) \/ Refuse(c) \/ SendTrigger(c) \/ TriggerAccepted(c) \/ TriggerFails(c)
    \/ TimerFires(c) \/ ObjectLost(c) \/ WaitFails(c)
    \/ CacheEvidence(c) \/ Relay(c) \/ HandlerLost(c)

RunStep(c) ==
    \/ GatewayForwards(c) \/ GatewayAssumes(c) \/ GatewayRefuses(c)
    \/ CallProvider(c) \/ WriteVerdict(c) \/ PushResult(c) \/ RunDies(c)

Next == RegistryStep \/ \E c \in Calls : ProxyStep(c) \/ RunStep(c)

Spec == Init /\ [][Next]_vars

\* Timers fire, a promise that is settled is taken up, and a handler that is
\* not refused goes on.  Nothing is assumed of the gateway, the run, the
\* provider or the registry.
Fairness ==
    \A c \in Calls :
        /\ WF_vars(SendTrigger(c) \/ Refuse(c))
        /\ WF_vars(TriggerFails(c) \/ TriggerAccepted(c))
        /\ WF_vars(TimerFires(c))
        /\ WF_vars(CacheEvidence(c) \/ WaitFails(c))
        /\ WF_vars(Relay(c))

FairSpec == Spec /\ Fairness

-----------------------------------------------------------------------------
(***************************************************************************)
(* Properties.                                                             *)
(***************************************************************************)

\* No agent is left hanging: once its service checked out, a paid request is
\* answered (or its connection is gone) even if the gateway, the run and the
\* callback all stay silent.
EveryCallIsAnswered ==
    \A c \in Calls : handler[c] = "admitted" ~> handler[c] = "done"

\* A callback told { ok: true } met a waiter: its call never ends in a timeout,
\* however close the timer was and whatever became of the object since.
AcknowledgedNeverTimesOut ==
    \A c \in Calls : acked[c] => answer[c] # "workflow_timeout"

\* What is relayed was judged by a run that ended for this call, and the Arc
\* transaction it quotes wrote a verdict unless the provider had left.
RelayedWasJudged ==
    \A c \in Calls : answer[c] = "relayed" =>
        /\ acked[c] /\ run[c] = "ended"
        /\ wrote[c] => ruling[c].ruled \/ standing[ServiceOf[c]] = "DEREGISTERED"

\* A result that the callback route accepted costs the agent nothing on the way
\* back: it is relayed, whatever the timer, the evidence store and Arc do, unless
\* the connection is gone, the trigger request had not been answered yet, or the
\* object was lost before the handler had the result from it.
AcceptedResultIsRelayed ==
    [][\A c \in Calls : acked[c] /\ answer'[c] # answer[c] =>
         \/ answer'[c] \in {"relayed", "dropped"}
         \/ handler[c] = "triggering"
         \/ handler[c] = "waiting" /\ pending[c] = "lost"]_vars

\* A provider that says it was not paid answers for nothing, and one whose SLA
\* could not be read does not answer for a request it turned down.
NothingDeliveredNothingJudged ==
    \A c \in Calls :
        /\ seen[c] = "402" => ~ruling[c].ruled
        /\ seen[c] = "4xx" /\ ~readable[c] => ~ruling[c].ruled

\* An agent that is refunded less than the call's due gets everything the bond
\* still held, and the service stops routing in the same step.
ShortRefundSuspends ==
    [][\A c \in Calls :
         LET due == Min({RefundCap, Paid[PaymentOf[c]]}) IN
         /\ ruling'[c].ruled /\ ~ruling[c].ruled
         /\ outcome[c] # "PASS" /\ ruling'[c].refund < due
         => standing'[ServiceOf[c]] = "SUSPENDED" /\ bond'[ServiceOf[c]] = 0]_vars

(***************************************************************************)
(* What the code says of itself and this model contradicts.                *)
(***************************************************************************)

\* router.js on every failure path: "Nothing may silently swallow what they
\* bought".  A result the callback route accepted is not thrown away in favour
\* of an error about the trigger that led to it.
AcceptedResultReachesAgent ==
    \A c \in Calls : acked[c] => answer[c] # "trigger_rejected"
=============================================================================
