# Verdikt in TLA+

Verdikt sells a guarantee on paid API calls.  A provider bonds a service on Arc, publishes an SLA
under an ENS name, and agents call it through a proxy with an x402 payment.  A run in an enclave
replays the payment, judges the answer against the SLA and writes a verdict to the registry, which
refunds the agent out of the bond when the call failed.  Claims about clauses a machine cannot
decide go to a judge contract on GenLayer.

This directory holds TLA+ models of the parts whose correctness depends on the order in which things
happen, TLC configurations that check them on small instances, and proofs for every instance.

    tlc -workers 2 -config VerdiktRegistry.cfg MCVerdiktRegistry
    tlapm VerdiktRegistryProofs.tla

## 1. Inventory

| Part | State it keeps | Operations | Talks to | Hard because |
|---|---|---|---|---|
| `contracts/src/VerdiktRegistry.sol` | services, verdicts, credits, spent nonces, lock, native balance | register, topUp, deregister, onReport, withdraw, withdrawWithAuthorization | CRE forwarder, providers, payers (called with value) | foreign code runs in the middle of a withdrawal; duplicate and foreign reports; reverts |
| `proxy/src` paid leg (`router.js`, `verification.js`, `pending-do.js`) | one handler per request; one Durable Object per call in flight, memory only | `handleRequest`, `verified`, `verify`, register/settle/cancel/wait, `handleCallback` | ENS, Arc, the provider, gateway, evidence cache, agent | the trigger's answer, the callback, two timers, resets and hang-ups in any order |
| `runner/src/gateway.js` | none | JWT check, forward the trigger, acknowledge | proxy, simulator | a timeout of the simulator is counted as acceptance |
| `cre/workflows/verify` with `cre/lib/judge.js` | one run | replay the payment, judge, write to Arc, push the result | provider, forwarder, proxy callback | every step may be the last; the write may be declined |
| `packages/sla` | none | parse, validate, `evaluate`, `evaluateStatusOnly`, aggregate | used by run, proxy, web | clause semantics, boundaries |
| `proxy/src/evidence.js`, `evidence-do.js` | one envelope per call, a deadline, an alarm, a disclosed flag | store, read, expire | proxy, judge, claimant | two clocks on one deadline |
| `genlayer/.../settlement_token.py` | balances, escrows by owner and custodian | mint, transfer, escrow, release | judge | releases arrive on finality |
| `genlayer/.../sla_claim_judge.py` | claims, deposits, commitments, cooldowns, bonds | fund, submit, resolve, cancel, request/cancel withdrawal, withdraw | token, evidence, Arc clock | a settlement is booked before its releases land |
| `cre/workflows/aggregate`, `cre/lib/reputation.js`, `log-range.js` | none between runs | read verdicts in chunks, score, publish | Arc, score writer | window and chunk boundaries |
| `VerdiktScoreWriter.sol`, `VerdiktSubnameRegistrar.sol` | scores and ENS records, claimed subnames | write score, claim | ENS contracts | permissions per record key |
| `packages/sdk` | an ENS cache with a TTL | resolve, read the registry, decode payments | everything off chain | stale records |
| `runner/src/simulator.js`, `bin/` | a child process; open claims | restart, resolve claims, publish scores | gateway, judge | exits while work is in flight |
| `web/src` wallet, session, wizard | identity revision, session token, cursor | connect, sign in, onboard | both chains, registrar, registry | answers for an earlier identity; four transactions on two chains |
| web rendering, scripts, fixtures, deployments | none of their own | | | |

What makes each part correct:

- **Registry.**  It holds exactly what it owes.  A call is ruled at most once and a ruling is final.
  Nobody gets out more than it paid for failed calls.  A provider in debt cannot leave, a slug never
  changes hands, a signed authorization pays once, and none of this depends on what a recipient does
  while it is being paid.
- **Paid call.**  Every agent that paid is answered.  A result the callback route acknowledged met a
  waiter, and once the handler waits for it nothing but a lost connection or a lost object keeps it from
  the agent.  What is relayed was judged and stands on Arc.
- **Run.**  What was not accepted or not delivered is not judged as delivered; a refund is the least
  of the cap, the payment and the bond.  A verdict is what the published document says of the answer,
  an SLA nobody can parse makes nobody worse off than the status alone would, and what is relayed fits
  the proxy's budget.
- **Runner.**  There is one simulator at a time, it comes back, and no trigger hangs on it.
- **Evidence.**  An envelope can be read throughout the filing window and, once disclosed, throughout
  the adjudication window; never after.
- **Judge and token.**  Escrowed balances cover deposits and bonds, less what is on its way out; every
  open claim can be closed; a deposit cannot leave while a call it covered may still be claimed.
- **Dispute.**  A claim is judged on evidence that leader and validator both saw; how often a claim is
  retried is limited, by what the resolver's runs can remember; and none is left unattended.
- **Aggregation.**  Every verdict in the window is counted once, and every listing gets its score.
- **Onboarding and session.**  A resumed wizard repeats nothing and skips nothing; an answer for an
  earlier identity changes nothing.

The hazards behind these, each at its line, are in `PROJECT.json`.

## 2. The modules

| Module | Models | Kind |
|---|---|---|
| `EscrowLedger` | what the registry promises, one atomic operation at a time | abstract specification |
| `VerdiktRegistry` | `VerdiktRegistry.sol` and `ReportReceiver.sol` | detailed; implements `EscrowLedger` |
| `PaidCall` | proxy handler, workflow client, pending object, gateway and enclave run, over `EscrowLedger` | composition |
| `JsonSchema` | the schema validator, `packages/sla/jsonschema.js` | functions on schemas and values |
| `SlaEngine` | the rest of `packages/sla`: parsing, clauses, fallback; `judge.js`; over `JsonSchema` | operators |
| `VerifyWorkflow` | one call from the ENS record to the relayed payload, over `SlaEngine` | composition |
| `TokenPots` | what the settlement token promises: disjoint pots | abstract specification |
| `SettlementToken` | `settlement_token.py` | detailed; implements `TokenPots` |
| `ClaimJudge` | `sla_claim_judge.py` over `SettlementToken`, with the releases in flight | composition |
| `EvidenceStore` | what the proxy promises about the evidence of a call | abstract specification |
| `EvidenceCache` | `evidence-do.js` with its storage and its alarm | detailed; implements `EvidenceStore` |
| `Dispute` | one disputed call: `EvidenceCache`, the judge's round over it, the resolver | composition |
| `Scores` | `packages/sla/aggregate.js` | operators |
| `Reputation` | the aggregate workflow beside a growing chain, over `Scores` | detailed |
| `Runner` | simulator supervisor, gateway, shutdown | detailed |
| `Onboarding` | wallet, session, wizard, registrar and registry | composition |
| `Totals` | sums over sets, by counting units | operators |
| `VerdiktRegistryProofs`, `TotalsProofs`, `PaidCallProofs`, `ClaimJudgeProofs`, `DisputeProofs`, `WorkflowProofs`, `RunnerProofs`, `OnboardingProofs` | theorems | proofs |
| `MCVerdiktRegistry`, `MCPaidCall`, `MCClaimJudge`, `MCReputation`, `MCOnboarding`, `MCVerifyWorkflow` | small values of the constants | for TLC |

Throughout, a call that reverts, raises or returns early without writing is a false guard or a stutter;
an action is a stretch of code between two places where anything else may happen; a variable marked
*history* in its declaration is read by properties only.  A definition whose comment begins with
"Mutant:" or "A slip:" is a plausible wrong version of the one after it; no specification uses it.

### VerdiktRegistry and EscrowLedger

Each external function that writes is one action with the function's name; the variables have the
contract's names.  A transaction is alone on the chain, so a function is atomic except at `_send`,
which calls the recipient.  `Send` ends the action there: the value and the lock have moved, `frame`
records the call with the storage the transaction started from, and any function without the lock may
be called from inside.  `SendReturns` lets the function end.  `SendReverts` gives back the saved
storage, the nested effects included, which is what `TransferFailed` does.  Whether the recipient will
accept is fixed when it is called and read only when it returns; the refinement needs to know it in
advance, and nothing else looks at it.

A declined report (duplicate, unknown or deregistered service) changes nothing.  Signature recovery is
modelled by its result: `Signed` holds what payers signed.  Amounts keep two units, and the conversion
to native units saturates at `MAX_UINT`, as in `_recordVerdict`.

`EscrowLedger` has six variables and five operations (open, fund, close, rule, pay), no lock, no call
stack and no failing transfer.  `Ledger` in `VerdiktRegistry` is the refinement mapping: a transaction
that is going to be reverted shows nothing of what it does (`View` is its saved storage), any other
shows what it does as it goes.

### PaidCall

It composes with the registry through the abstract ledger: since `VerdiktRegistry` is proved to
implement `EscrowLedger`, the calls need not be checked against every nested transfer as well.
`handler` is where `verified` stands between two awaits; `trigger`, the request to the gateway and
its answer; `pending`, the Durable Object; `run`, where the enclave run stands.  `answer` is what the
agent was told, `acked` whether the callback route answered `{ ok: true }`, `evidence` whether an
envelope was stored (`StoreThrows` is a store that throws, or that is not configured), `wrote` whether the run saw its Arc transaction succeed.  `settled` is the
provider's side of a payment and belongs to no code of the repository.

| Actions | Code |
|---|---|
| `Admit`, `Refuse` | `handleRequest` up to the paid leg, `verified` up to the trigger |
| `SendTrigger`, `TriggerAccepted`, `TriggerFails` | `verify` |
| `TimerFires`, `ObjectLost` | the object's timer; its reset |
| `CacheEvidence`, `Relay`, `WaitFails`, `HandlerLost` | the rest of `verified`; the end of its isolate or connection |
| `GatewayForwards`, `GatewayAssumes`, `GatewayRefuses` | `handleTrigger` |
| `CallProvider`, `WriteVerdict`, `PushResult`, `RunDies` | `onVerifyRequest`, `finish` |
| `RegistryStep` | the registry's other users |

The report a run writes is taken to be authentic and its gas to suffice: the forwarder swallows a
receiver's revert, and the run then counts as written what is not.  That the registry declines a report
without reverting is modelled.  `Unreliable` is the set of calls whose timers may fire and whose
messages and processes may be lost; the theorems hold for any such set.  Responses are abstracted to
the status classes `judge` tells apart and to whether the declared clauses were kept.

### JsonSchema, SlaEngine and VerifyWorkflow

`VerifyWorkflow` follows one call again, this time over documents instead of outcomes.  A JSON value is
a record with its type and content, an object's members are a sequence because the validator reports in
the order it meets them, numbers are in halves so that some are not integers, and a body carries the
serialized cost of its characters (plain, quoted, control, the two halves of a surrogate pair).

The validator calls itself on what is inside a schema and inside a value.  Its definitions are therefore
functions on the sets of them, `Schemas` and `Values`, which contain what is inside their members.
`TreesAssumption` says that these are what `JSON.parse` returns: every schema and every value has a
height above those of its parts, and no object has a name twice.  `Conforms` is not code: it says what
it is to conform to a schema, without the order in which the validator looks, and the properties
compare the two.

| Definitions | Code |
|---|---|
| `AssertSchema`, `Validate` and their parts | `jsonschema.js` |
| `WellFormed`, `Parses` | `parseSla` with `schema.json` |
| `EvaluateClause`, `EvaluateDelivery`, `Evaluate`, `EvaluateStatusOnly` | `clauses.js`, `index.js` |
| `Judgement`, `FailedClauseOf` | `judge.js` |
| `PublishSla`, `Resolve`, `Hit`, `Keep`, `ReadFails` | the `sla` record; the SDK's cache and the reads of whoever finds nothing in it |
| `Request`, `Resolved`, `Refused`, `Trigger`, `Tick` | the call in the proxy, from the record it resolves to the trigger |
| `Replay`, `Write` | `onVerifyRequest` |
| `Size`, `Trim`, `Push` | `relay-payload.js` |
| `Matched` | how `registry.js` leads a reader from a verdict to a clause |

Neither reading a name nor handling a call takes no time.  A read is of the moment the name service
answers it; `resolveServiceRecord` stamps the record only when the read has come back, and a slow read
may overwrite what a later one has put there.  Between the record and the trigger the handler awaits the
registry, the request's body, the provider's challenge and the payment.  `reads` and the phases
`reading` and `handling` of `call` hold what is under way, `age` for how long, and `gone` for how many
ticks the SLA in it has not been the published one.

### SettlementToken, TokenPots and ClaimJudge

The token's four writes are actions; `Free` and `EscrowedTotal` are its views.  The token recomputes
what an owner may move from every escrow, so its refinement mapping onto `TokenPots` is `Free` and
`escrows`: escrowed tokens are in a pot only the custodian moves.

`ClaimJudge` EXTENDS the token.  The judge reads the token as it is now, but moves it only by messages
executed after its own transaction is final: `inFlight` holds those releases, `DeliverRelease` executes
any of them, in any order, and drops one that the token refuses.  Its books (`deposit_amount`,
`deposit_committed`, `claims`, `open_claims`, `bonded`) have moved already.  The judge's clock is
`Bucketed(now)`, rounded down to `ClockBucket`.

| Actions | Code |
|---|---|
| `FundDeposit`, `RequestWithdrawal`, `CancelWithdrawal`, `WithdrawDeposit` | the functions of those names |
| `SubmitClaim` (guards `BondPosted`, `Eligible`, `Fileable`) | `submit_claim`, `_read_eligibility`, `check_eligibility` |
| `ResolveClaim`, `CancelClaim` (with `Settle`, `Plan`) | `resolve_claim`, `cancel_claim`, `_settle` |
| `UseToken`, `WriteVerdict`, `Tick` | the parties' own token calls; Arc |

How `resolve_claim` comes to its outcome is left open here, and is `Dispute`'s subject.

### EvidenceCache, EvidenceStore and Dispute

The object writes in two awaited steps, first the record and then the alarm.  `handler` says which
handler is between them, `ResetInHandler` loses it there, and the alarm fires when it is due or later.
The in-memory store of `evidence.js`, atomic and without an alarm, is what `EvidenceStore` abstracts.
The disclosure gate is modelled as what it lets through: everyone once there is a verdict, unless the
registry cannot be reached.

`Dispute` EXTENDS the cache.  In a round leader and validator read (`ReadEvidence`, `GateFails`) and
judge for themselves; `Decide` needs equal outcomes, `Rotate` ends a round without one.

| Actions | Code (`resolve-claims.mjs`) |
|---|---|
| `List`, `Load`, `Skip` | the listing, `loadState`, the attempts used up |
| `Send`, `SendFails`, `ReceiptTimeout` | `resolveOne` |
| `Count`, `SaveState`, `RunLost` | the entry, `saveState`, a death anywhere |

The schedule starts a run every two minutes and one receipt may be waited for longer, so `Runs` overlap:
`job` is where each is, `attempts` its copy of the claim's failures, `saved` and `text` the state file they
share.  `writeFile` empties the file before it writes, so the file is not to be read while one is
`"writing"` and may be garbled by a death in mid-write or by two writers; `loadState` takes an unreadable
file for an empty one.  A receipt may time out while its transaction is executed later (`Orphaned`).
The claimant is not the resolver, which skips claims of its own.

### Scores and Reputation

`StartRun`, `ScanRegistrations`, `ReadStatus`, `ScanVerdicts`, `Compute` and the publishing steps are
`onSchedule` between its reads and writes, any of which may fail; `Mine` and its uses are Arc, which
registers, judges and deregisters meanwhile.  A block holds at most one event, and its time is its
number times `BlockTime`, which is what the workflow assumes when it dates a log from the head.

### Runner

A child compiles, serves and dies; Node's `error` and `exit` events reach the supervisor later and one
death may cause both (`Report`).  `Restart` is the timer's callback, and `restarting` the guard that
keeps two timers apart.  A trigger arrives, ends its body, is refused or forwarded, and is answered by
the child, a reset connection or the acknowledgement timeout.  `Shutdown` is the signal handler.

### Onboarding

`wallet` is the connected account and network with the revision `wallet.js` bumps; `deps` is what the
mounted wizard was built with, `page` the element's own state, `top` the browser's history, `lookups`
and `runs` the handlers that stand at an await.

| Actions | Code |
|---|---|
| `SyncWallet`, `SessionExpires`, `AskSignIn`, `SignIn` | `wallet.js`, `session.js`, `main.js` |
| `EditSlug`, `CheckFires`, `CheckLands`, `GoStep`, `RestoreStep` | the wizard's draft, debounced check and steps |
| `Click`, `EnsureChain`, `SignForStep`, `Request`, `Answer` | one transaction, await by await |
| `Mine`, `RivalClaims` | registrar, resolver and registry; another claimant |

## 3. What is checked

| Run | Instance | Shows |
|---|---|---|
| `registry` | two services, two accounts, two paid calls, six reports, one nonce signed twice | solvency, accounting per payer, no profit from failure, one provider per history, no walking away, implements the ledger |
| `call_one` | one call, every failure | an accepted result is not reported as a timeout, and is relayed whatever store and timers do; every admitted call is answered |
| `call_two` | two calls, of one unit and of two, that share a bond of two, no failures | a short refund takes all that is left and suspends at once; relayed answers were judged |
| `judge_safety` | two interchangeable parties, two slugs, one call, a clock of two-second buckets | types, the books, that escrow covers them less what is in flight, that no other slug eats a disputed deposit, that a deposit outlasts the filing window, that a closed claim stays closed |
| `judge_closes` | two parties, one slug, a custodian besides the judge | the token keeps its pots apart under several custodians; every open claim is closed |
| `dispute` | one call, two readers, two attempts, two runs of the resolver, one of them lost or beside the other | both nodes see the same evidence, merits need two readings, how far forgotten attempts are repeated, the cache implements its store, claims are worked off |
| `reputation` | two services, six blocks, chunks of two, a window of three blocks | every block counted once, every score is its window's, every listing is scored |
| `runner` | two triggers, three spawns | one simulator, it comes back, triggers are answered |
| `onboarding` | two accounts, one slug, three wallet changes, two edits, four clicks | the proof, the availability answer and the payout address are the ones of the account and slug they are used for |
| `verify_workflow` | ten contents of the record, two other users of the name, 141 observations | the six properties of `VerifyWorkflow` |

Two more runs end in a counterexample on purpose; see below.

**Bounds.**  Each is the least at which the interesting cases occur.

- `registry`: the supply leaves room for both bonds and a top-up, a bond is larger than one refund and
  smaller than two so that it drains in the second, the two verdicts for the first call disagree about
  the service, one amount saturates the conversion, one report is of a foreign workflow and one comes
  from a foreign sender, and one of the two authorizations for the nonce expires.
- `call_one`, `call_two`: calls share only the registry and their payment, so one call is enough for
  the failures; the second run is about the sharing.
- `judge_safety`: bond and bounty of one unit, windows of two against a cooldown of four and a bucket of
  two, so that rounding can eat into a window; three tokens so that deposits on two slugs and a bond
  compete; `LastCall` and `LastRequest` leave the longest wait inside `MaxTime`.
- `judge_closes`: the parties escrow to each other too and withdraw or lose tokens between booking and
  release, so that a bond may be gone when its claim is closed.
- `dispute`: times to live of one and two ticks in a clock of three let evidence expire before a claim,
  during a round and after it; claims are filed in the tick of the verdict, which leaves the clock for
  that.  Two transactions in flight let a late one of an earlier run be executed first, and two runs read,
  send, empty and write in every order; with one mishap the limit on attempts is reached exactly, both
  when the file was always readable and when it was not.  The run takes two minutes and a half.
- `reputation`: the window is no multiple of the block time, the deployment block is inside the first
  windows and outside the last, and the last chunk is cut by the head.
- `runner`: the last spawn stays up, since otherwise no bound on spawns lets the supervisor come back.
- `onboarding`: three wallet changes are an account switch, a switch back and a network change.
- `verify_workflow`: the record may be absent, unparseable, hold every clause type, a duplicate id, the
  reserved id, a keyword nobody can enforce, and fail in each keyword the validator supports; the budget
  cuts bodies in the middle of a surrogate pair.  `Ttl` is three ticks and a read and the handling take
  up to two each, so that records of different ages overwrite each other and the bound of
  `JudgedUnderARecentSla` is reached exactly.  The two times are parameters because the code sets no
  bound on them of its own: the clients' and the runtime's timeouts do.

**Deadlock** is checked in `runner` and `verify_workflow`, which always have a step.  The other systems
end, or stop at the bound of their clock, their chain or, the registry, its supply.

**Fairness** is stated only where a liveness property needs it.

- `EveryCallIsAnswered`: an outstanding timer fires (`AbortSignal.timeout`, `setTimeout` in the
  object), a handler whose promise is settled goes on, and a message to one of its own Durable Objects
  is answered or fails.  Nothing is assumed of the gateway, the run, the callback, the provider or the
  registry, which is the point of the property.  It speaks of calls past the routing checks, since an
  ENS or RPC read has only its own client's timeout.
- `EveryClaimCloses`: time passes, and a claimant cancels a claim of its own that can be cancelled, which
  gives it its bond back.  Neither a judgment nor the delivery of a release is assumed.
- `ClaimsAreWorkedOff`: the schedule starts the resolver again and again and some run goes on (not every
  run: any may stop for good); the nodes, the object and the proxy's store answer.  A round may differ
  each time, a receipt may always time out, and the mishaps are finitely many.
- `ComesBack`, `TriggersAreAnswered`: a started child compiles or fails, Node delivers events, timers
  fire, a request's body ends or its connection breaks.  Nothing is assumed of the child's answer to a
  trigger.

### Where the code and its words disagree

Each of these runs checks one sentence of the repository and ends in a counterexample.

| Run | The sentence | What happens |
|---|---|---|
| `call_swallowed` | `router.js`: "Nothing may silently swallow what they bought" | the callback's result is accepted, then the trigger's own answer fails and the agent is told `trigger_rejected` |
| `onboarding_frozen` | `wizard.js`: the slug is frozen because the remaining transactions target it | Back is refused only after a transaction has been *confirmed*; while the first is pending the slug can be edited, and the next transaction registers the new one |

Others were met while modelling and are visible in `PaidCall` and `VerdiktRegistry`, without a run of
their own: after `TRIGGER_REJECTED` a verification may have happened, its acknowledgement lost
(`verification.js` says none happened); the failure answers say that the payment settled also when
the gateway refused and nobody called the provider (`router.js`); a provider that fails before it
settles is ruled against although "a payment the provider does not accept earns no verdict"
(`judge.js`); the judge headers are sent although the Arc write failed; evidence is cached by outcome, so also of a
call whose verdict the Arc write missed; and two failed calls with one
payment are refunded twice ("a refund never exceeds what the caller paid", `VerdiktRegistry.sol`).  In
`Dispute`, that a claim out of attempts is "left alone" and "not retried forever" (`resolve-claims.mjs`)
holds within `AttemptsAreRemembered`'s bound only: every run that begins beside another, is lost or finds
the state file unreadable lets the claim be tried again.

One came out of a proof.  A clause may be called `unknown`, for `schema.json` allows any id but
`delivery`, and that is also what `registry.js` returns for a clause the published SLA no longer
declares; `lit-app.js` then says that the SLA has been edited when it has not.
`ReaderIsLedToTheClause` excepts that one name.

## 4. What is proved

All proofs are for arbitrary constants under named assumptions, which TLC evaluates on its instances:
the constructors' `require`s (`ConstructorAssumption`, `JudgeAssumption`), the ranges of inputs and
parameters (`InputAssumption`, `CallAssumption`, `TokenAssumption`, `WindowAssumption`,
`DisputeAssumption`, `ReputationAssumption`, `RunnerAssumption`, `OnboardingAssumption`,
`TreesAssumption`, `TextsAssumption`, `ObservationsAssumption`, `SizesAssumption`) and a call frame distinct from none
(`NoCallAssumption`).  Every invariant and every action property a run checks is proved; so are
the three refinements.

**Totals** (`TotalsProofs`).  The properties that add amounts up need sums that can be reasoned about,
and the library's sum is a recursion.  `Total(f, S)` is therefore the number of units the members of `S`
hold: pairs of a member and one of `1 .. f[x]`.  Counting needs no induction: the lemmas say that a
total is a natural number, what it does when one member changes, joins or leaves, that it is monotone,
and that a total over a disjoint union is the sum of the totals.  Each
follows from the library's facts about cardinalities.

**Registry** (`VerdiktRegistryProofs`): `TypeCorrect`, `StatusAndBond`, `NoncesPayOnce`,
`VerdictFinality`, `VerdictsComeFromTheWorkflow`, `OneProviderPerHistory`, `NobodyWalksAway`,
`Refinement`, `RegistryIsSolvent`, `RefundsAreAccounted`, `FailureIsNotProfitable`, `ClaimsAreCovered`.
The invariant is not inductive by itself, because `SendReverts` replaces the storage by the one in the
frame.  `IInv` therefore says of the saved storage all it says of the current one (`StorageInv`), that
the lock is taken exactly while a frame is open, and that the current storage extends the saved one
(`Extends`: verdicts, owners and delisted services are still there).  `Extends` is what makes finality
an action property of `Committed`, the storage the next transaction will find.  There is one lemma for
each function, and two for steps that leave the frame alone (`QuietStep`) or open one (`SendingStep`).
`Refinement` adds a lemma for each function against its ledger operation, under `View`.

The four theorems about money rest on `BooksInv`: the balance is the bonds plus the credits, what a payer
was credited is what it has plus what its authorizations and withdrawals took, and a verdict credits no
more than its call cost and nothing if it passed.  Again it is said of both storages, and the balance
there is that of the moment the frame was opened.  `FailureIsNotProfitable` then only compares two
totals over the calls of one payer.

**Paid call** (`PaidCallProofs`): `AcknowledgedInTime`, `AcceptedIsRelayed`, `RelayedAfterJudgement`,
`NoVerdictWithoutDelivery`, `ShortRefundTakesTheBond`, `RulingsAreFinal`, `LedgerIsBacked`, `TypeCorrect`,
`CallsUseTheLedger`, `JudgesAsTheEngine`.  `IInv` relates the handler to the
object (`ProxyOrder`: what an object holds was acknowledged, what was acknowledged can be lost with its
object but not time out, and no run comes before its trigger), the run to its inputs (`RunOrder`) and
the registry to the run (`LedgerOrder`: a service once admitted stays known, so a report is declined
only because the provider left).  `LedgerIsBacked` is the solvency of the ledger itself: the value held is the sum of
bonds and credits, as two totals, one lemma per ledger operation; that it is a natural number follows.

Two theorems tie the module to the ones it abstracts.  `CallsUseTheLedger`: a behaviour of paid calls is,
of the registry's variables, a behaviour of `EscrowLedger`, which is the specification `VerdiktRegistry`
is proved to implement.  `JudgesAsTheEngine`: its `Judge`, which knows a status by its class and the
clauses by whether they were kept, gives the outcome of `SlaEngine` for any document and observation.

**Token and judge** (`ClaimJudgeProofs`).  Of the token: `TokenBacked`, `TokenConserved`,
`TokenImplementsPots`, from `TokenInv`: types, the supply, and every owner's escrows within its balance.
Of the judge: `JudgeTypesCorrect`, `JudgeBooksAgree`, `JudgeCommitmentsCover`, `JudgmentsAreFinal`,
`DepositsOutlastFiling`, `EscrowsCoverTheBooks`, `DisputesKeepTheirDeposit`, `JudgeImplementsPots`.
Every step of the judge is a step or a stutter of the token (`TokenStep`), so the token's theorems carry
over.  `JudgeInv` adds that the counts of open claims and of bonds are the cardinalities they stand for,
that the shares of an account's slugs fit together in what is committed for it (`Covered`, a total), and
that a withdrawal's request time is the bucketed time at which the deposit was last staked
(`StampLags`).  The last is why the cooldown works on a coarse clock: it lags by less than a bucket, a
bucket is no longer than the filing window, and the constructor requires the cooldown to be two of those.

`EscrowCoversBooks` is not inductive.  It speaks of the advertised deposits, but the judge subtracts from
`deposit_committed`, which may exceed them; `Backed` says that an account's escrow covers its
commitment, its bonds and everything of its own on the way out, and `CommitmentsBacked` that this is so
for everyone who did not commit escrow again that was already leaving, and that a release is refused
only to someone who did.  What is on the way out is a total over a bag of releases.  Booking a settlement
moves an amount from one term to another; delivering it takes the same amount from both sides.

**Evidence and dispute** (`DisputeProofs`).  Of the object: `EvidenceIsKept`, `EvidenceEnds`,
`CacheImplementsStore`.  `CacheInv` says that an alarm is at the deadline unless a reset tore a
disclosure (`AlarmInv`), and that whoever is being answered has the whole runway ahead of it
(`RunwayInv`); without the second the extension could not be told from a first deadline.  Of a disputed
call: `DisputeImplementsStore`, `RunwayReachesTheValidator`, `MeritsWereReadTwice`,
`AttemptsAreNotForgotten`.  `RoundInv` fixes the order of a round's readings and `DecidedInv` what a
decision leaves behind.  For the attempts, `QueueInv` says that a run has a transaction queued only
while it waits for it, and one only.  `AttemptsInv` compares what was sent, or may still be sent by the
runs that have begun, with each count (`Accounts`): that of a run which has counted, or of a file nobody
is working on, accounts for all of it, but for `MaxAttempts` per run that could not read the file and one
per run that was lost or began beside another; that of a run which is still to count, for all but one.
Once a count has reached `MaxAttempts` nobody sends but a run that finds the file unreadable
(`Exhausted`).

**Workflows** (`WorkflowProofs`).  Of the aggregate workflow: `OnlyTheWholeIsPerfect`,
`WindowIsCountedOnce`, `ScoresAreOfTheWindow`, `EveryListingGetsItsScore`.  The window's invariant is
that a block was seen once exactly when it lies between the scan's start and its cursor; the list's, that
a service listed at the head is found, listed, still to publish, published or failed, according to the
phase.  Arc goes on during a run, so the scores' argument is that no block up to the head changes.

Of the verify workflow: `SlasAreRecent`, `VerdictsAreOfTheDocument`, `NeverMoreLenient`,
`ReadersAreLedToTheClause`, `PayloadsFit`, `TwoCutsAreEnough`, all from `CallInv`:

- `ReadsOK`, `CacheOK`: what was read has been out of force for no longer than the read took, so the
  ticks a cached record has left and the ticks it has been out of force are at most `Ttl` and `MaxRead`
  together, whichever read came back last.  `SlasAreRecent` adds the handling, for any length of each.
- `BodyOK`: after a cut the payload fits, unless the cut split a surrogate pair.  Then the half that is
  left is written as an escape, what exceeds the budget is less than that escape costs, and the second
  cut removes it.  So `FIT_ATTEMPTS`, which is eight, is six more than are ever made.
- `VerdictOK`: a verdict is the judgement of the document its call carried.

`ValidatorDecides` says that the validator reports no failure exactly when the value conforms;
`VerdictIsOfTheDocument` and `ReaderIsLedToTheClause` rest on it.  `ReportsAreOfTheValue` says that it
reports the same failure at the same place of values that differ in the order of their members, and
`OrderOfMembersIsIgnored` that the reports of a call do.

These are inductions over trees, which the library states with an operator as parameter.  Here they are
stated with sets instead.  `ByHeight`: a set that contains every member of `S` whose lower ones it
contains is all of `S`, because a number least among the heights of what is missing would be missing
nothing below it.  `RecursionHasASolution`: a function whose value at each point is determined by its
values lower down exists and satisfies its equation, which gives `ConformsUnfolds`, `ValidateUnfolds`
and `DeepEqualUnfolds`.  On these rest one lemma per keyword (`ItemsAreReported`, `RequiredIsReported`,
`DeclaredAreReported`, `OthersAreReported`, `OneAlternative`) and the step of the induction
(`TheWholeIsDecided`), over pairs of a schema and a value.

**Runner** (`RunnerProofs`): `RunnerTypes` and `OnlyOneSimulator`.  `OneSimulator` alone does not
survive a restart.  What does: only the child spawned last runs (`OnlyTheLastRuns`), an event on its way
is of that child and it is dead (`ReportersAreGone`), and a timer is set only after a death
(`RestartsAfterADeath`).

**Onboarding** (`OnboardingProofs`): `OnboardingTypes`, `SessionsAreOfTheConnected`,
`AvailabilityIsAboutTheSlug`, `NamesPayTheirOwner`.  The three properties meet in one invariant, a
conjunct for each place where an earlier identity or slug may survive: the prompt (`PromptOK`), a lookup
in flight (`LookupsOK`), a click standing at an await (`RunsOK`: its payout address is the connected
account's as long as it remembers the present identity, and a client bound to a connection sends from
the account it was bound for), and the transactions in the pools (`ChainsOK`).

**By proof only.**  `StatusAndBond`, `NoncesPayOnce`, `VerdictFinality`, `VerdictsComeFromTheWorkflow`,
`ClaimsAreCovered`, `NoVerdictWithoutDelivery`, `RulingsAreFinal`, `LedgerIsBacked`, `CallsUseTheLedger`,
`JudgesAsTheEngine`, `EvidenceIsKept`, `EvidenceEnds`, `TokenBacked`, `TokenConserved`,
`JudgeCommitmentsCover`, the types of the runner, the wizard and the paid call, `OnlyTheWholeIsPerfect`,
`ValidatorDecides`, `ReportsAreOfTheValue` and `TwoCutsAreEnough`: no run states them again.

**By model checking only.**  The liveness properties (`EveryCallIsAnswered`, `EveryClaimCloses`,
`ClaimsAreWorkedOff`, `ComesBack`, `TriggersAreAnswered`) need fairness and `ENABLED`, which the provers
do not support.  The two counterexamples are TLC's.

## 5. What is not modelled, and the plan

Next, in order:

1. **The paid call over the contract itself**: `PaidCall` is proved over the ledger, which the contract
   implements; a module with both would also show a write that meets a transfer in progress.
2. **Editing a listed service** and resuming onboarding in a new tab, in `Onboarding`.
3. **Torn records**: the seven reads of an ENS name are one read in `VerifyWorkflow`, though a provider
   may edit between them.
4. **The pending object's registration**: `PaidCall` takes the order that `verification.js` argues for,
   in which the object is registered before the trigger is sent.

Modelled as coded, and worth knowing: the payer check of a claim and the disclosure gate's signature
check are switched off in the code, so anyone may claim or disclose.  Appeals are outside: a judge
transaction is final when it is executed.

Left out: the unpaid passthrough, slug routing, header hygiene and challenge parsing of the proxy (they
keep no state); the readers of the marketplace and all rendering and forms; one-shot operator scripts,
recorded fixtures and deployments; cryptography (JWT, EIP-712 and x402 signatures appear as what they
let through); ABI and DNS encodings; vendored code.
