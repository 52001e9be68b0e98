----------------------------- MODULE ClaimJudge -----------------------------
(***************************************************************************)
(* genlayer/contracts/sla_claim_judge.py over the token it escrows with.   *)
(*                                                                         *)
(* A provider's deposit and a claimant's bond are both escrow at one       *)
(* SettlementToken: the judge keeps books on them and reads the token as   *)
(* it is now, but moves it only by messages that the token executes after  *)
(* the judge's own transaction is final.  Until then the books have moved  *)
(* and the escrow has not; inFlight is what lies between.  The token may   *)
(* execute them in any order, and refuses one that it can no longer cover. *)
(*                                                                         *)
(* A refused call raises and is a false guard.  A judge transaction is     *)
(* taken as final: appeals are not modelled, nor a judge without a token.  *)
(***************************************************************************)
EXTENDS SettlementToken, Integers, FiniteSets

CONSTANTS
    Parties,        \* providers, claimants and resolvers: any may be all three
    Judge,          \* this contract's address
    Nobody,         \* deposit_owner of a slug nobody ever funded
    Slugs,          \* services
    Requests,       \* paid calls
    Clauses,        \* semantic clauses a claim can name
    SlugOf,         \* paid call -> the service its verdict names
    PaidAmount,     \* paid call -> its verdict's paidAmount
    BondAmount, BountyAmount, FilingWindow, Cooldown,   \* __init__'s parameters
    AdjudicationWindow,     \* ADJUDICATION_WINDOW_SECONDS
    ClockBucket,            \* CLOCK_BUCKET_SECONDS
    Amounts,                \* amounts the parties mint and escrow
    Transferred,            \* amounts they transfer, and release as custodians
    Custodians,             \* accounts that anyone escrows to, the judge among them
    LastCall,               \* bound on when a verdict is written
    LastRequest,            \* bound on when a withdrawal is requested
    MaxTime                 \* bound on Arc's clock

\* What __init__ requires, and that the clock's grain is below the window.
ASSUME JudgeAssumption ==
    /\ Judge \notin Parties /\ Nobody \notin Parties /\ Accounts = Parties \cup {Judge}
    /\ Custodians \subseteq Accounts
    /\ IsFiniteSet(Slugs) /\ IsFiniteSet(Requests) /\ IsFiniteSet(Clauses)
    /\ Amounts \subseteq 1..Supply /\ Transferred \subseteq 1..Supply
    /\ SlugOf \in [Requests -> Slugs] /\ PaidAmount \in [Requests -> Nat]
    /\ BondAmount \in Nat /\ BountyAmount \in Nat
    /\ FilingWindow \in Nat /\ AdjudicationWindow \in Nat
    /\ Cooldown \in Nat /\ Cooldown >= 2 * FilingWindow
    /\ ClockBucket \in Nat \ {0} /\ ClockBucket <= FilingWindow
    /\ MaxTime \in Nat /\ ClockBucket <= MaxTime

VARIABLES
    inFlight,               \* release -> how often it is emitted and not executed
    deposit_owner, deposit_amount, open_claims, withdrawal_requested_at,  \* by slug
    deposit_committed, bonded,          \* by party
    claims,                 \* <<request, clause>> -> its claim, or NoClaim
    now,                    \* Arc's clock
    writtenAt,              \* paid call -> its verdict's writtenAt, 0 for none
    stakedAt,               \* history: slug -> when it was last funded or asked back
    recommitted,            \* history: parties that committed escrow on its way out
    refused                 \* history: <<owner, to>> of releases the token refused

depositVars == <<deposit_owner, deposit_amount, deposit_committed, withdrawal_requested_at>>
claimVars == <<claims, open_claims, bonded>>
arcVars == <<now, writtenAt>>
history == <<stakedAt, recommitted, refused>>
vars == <<tokenVars, inFlight, depositVars, claimVars, arcVars, history>>

Keys == Requests \X Clauses
Releases == Parties \X Parties \X (1..Supply)
Judgments == {"BREACH", "MET", "UNDETERMINED"}

\* `criteria`, `reasoning` and the disclosure signature are carried, not used.
Claim == [claimant : Parties, filed_at : 0..MaxTime, bond : {BondAmount},
          outcome : {"OPEN", "CANCELLED"} \cup Judgments,
          compensation : Nat, bounty : Nat]
NoClaim == [outcome |-> "NONE"]

Open(k) == claims[k].outcome = "OPEN"
SlugOfClaim(k) == SlugOf[k[1]]

Least(a, b) == IF a <= b THEN a ELSE b
Bucketed(t) == t - (t % ClockBucket)

\* _escrow_of: what the judge may move now, releases in flight not deducted.
EscrowOf(a) == IF a = Nobody THEN 0 ELSE escrows[a][Judge]

\* Mutant: deposits and bonds are counted against the escrow each on its own.
AvailableEscrowIgnoringBonds(a, deposits, bonds) == EscrowOf(a) - deposits

\* available_escrow: deposits and bonds draw on the same escrow.
AvailableEscrow(a, deposits, bonds) == EscrowOf(a) - deposits - bonds

\* What a call leaves to the token, in messages; none is sent for 0.
Emit(out) ==
    inFlight' = [x \in Releases |->
                    inFlight[x] + Cardinality({i \in DOMAIN out : out[i] = x})]

Leaving(a) == \E x \in Releases : x[1] = a /\ inFlight[x] > 0

\* History: a commits escrow, some of which has been promised to leave.
Recommit(a) ==
    recommitted' = recommitted \cup {b \in {a} : Leaving(b)}

Init ==
    /\ TokenInit
    /\ inFlight = [x \in Releases |-> 0]
    /\ deposit_owner = [s \in Slugs |-> Nobody]
    /\ deposit_amount = [s \in Slugs |-> 0]
    /\ open_claims = [s \in Slugs |-> 0]
    /\ withdrawal_requested_at = [s \in Slugs |-> 0]
    /\ deposit_committed = [a \in Parties |-> 0]
    /\ bonded = [a \in Parties |-> 0]
    /\ claims = [k \in Keys |-> NoClaim]
    /\ now = ClockBucket
    /\ writtenAt = [r \in Requests |-> 0]
    /\ stakedAt = [s \in Slugs |-> 0]
    /\ recommitted = {} /\ refused = {}

-----------------------------------------------------------------------------
\* Deposits.

\* What sender has committed beyond slug's own share, which a top-up replaces.
CommittedElsewhere(sender, slug) ==
    deposit_committed[sender] - (IF deposit_owner[slug] = sender THEN deposit_amount[slug] ELSE 0)

\* Another account's slug is vacant once it is empty and nothing is disputed.
Bindable(sender, slug) ==
    \/ deposit_owner[slug] \in {Nobody, sender}
    \/ deposit_amount[slug] = 0 /\ open_claims[slug] = 0

Allocatable(sender, slug) ==
    AvailableEscrow(sender, CommittedElsewhere(sender, slug), bonded[sender])

\* Mutant: funding leaves a pending withdrawal, and its clock, as they were.
FundDepositKeepingClock(sender, slug) ==
    /\ Bindable(sender, slug)
    /\ Allocatable(sender, slug) > 0
    /\ deposit_owner' = [deposit_owner EXCEPT ![slug] = sender]
    /\ deposit_amount' = [deposit_amount EXCEPT ![slug] = Allocatable(sender, slug)]
    /\ deposit_committed' = [deposit_committed EXCEPT
           ![sender] = CommittedElsewhere(sender, slug) + Allocatable(sender, slug)]
    /\ stakedAt' = [stakedAt EXCEPT ![slug] = now]
    /\ Recommit(sender)
    /\ UNCHANGED <<tokenVars, inFlight, withdrawal_requested_at, claimVars, arcVars, refused>>

FundDeposit(sender, slug) ==
    /\ Bindable(sender, slug)
    /\ Allocatable(sender, slug) > 0
    /\ deposit_owner' = [deposit_owner EXCEPT ![slug] = sender]
    /\ deposit_amount' = [deposit_amount EXCEPT ![slug] = Allocatable(sender, slug)]
    /\ deposit_committed' = [deposit_committed EXCEPT
           ![sender] = CommittedElsewhere(sender, slug) + Allocatable(sender, slug)]
    /\ withdrawal_requested_at' = [withdrawal_requested_at EXCEPT ![slug] = 0]
    /\ stakedAt' = [stakedAt EXCEPT ![slug] = now]
    /\ Recommit(sender)
    /\ UNCHANGED <<tokenVars, inFlight, claimVars, arcVars, refused>>

RequestWithdrawal(sender, slug) ==
    /\ now <= LastRequest
    /\ deposit_owner[slug] = sender
    /\ deposit_amount[slug] > 0
    /\ withdrawal_requested_at' = [withdrawal_requested_at EXCEPT ![slug] = Bucketed(now)]
    /\ stakedAt' = [stakedAt EXCEPT ![slug] = now]
    /\ UNCHANGED <<tokenVars, inFlight, deposit_owner, deposit_amount,
                   deposit_committed, claimVars, arcVars, recommitted, refused>>

CancelWithdrawal(sender, slug) ==
    /\ deposit_owner[slug] = sender
    /\ withdrawal_requested_at[slug] # 0
    /\ withdrawal_requested_at' = [withdrawal_requested_at EXCEPT ![slug] = 0]
    /\ UNCHANGED <<tokenVars, inFlight, deposit_owner, deposit_amount,
                   deposit_committed, claimVars, arcVars, history>>

\* Mutant: the cooldown alone guards the deposit.
WithdrawableInDispute(slug) ==
    /\ withdrawal_requested_at[slug] # 0
    /\ now - withdrawal_requested_at[slug] >= Cooldown

\* withdrawal_refusal; the cooldown is read off the clock itself, not bucketed.
Withdrawable(slug) ==
    /\ open_claims[slug] = 0
    /\ withdrawal_requested_at[slug] # 0
    /\ now - withdrawal_requested_at[slug] >= Cooldown

WithdrawDeposit(sender, slug) ==
    /\ deposit_owner[slug] = sender
    /\ Withdrawable(slug)
    /\ deposit_amount' = [deposit_amount EXCEPT ![slug] = 0]
    /\ deposit_committed' = [deposit_committed EXCEPT
           ![sender] = @ - Least(deposit_amount[slug], @)]
    /\ withdrawal_requested_at' = [withdrawal_requested_at EXCEPT ![slug] = 0]
    /\ Emit(<< <<sender, sender, deposit_amount[slug]>> >>)
    /\ UNCHANGED <<tokenVars, deposit_owner, claimVars, arcVars, history>>

-----------------------------------------------------------------------------
\* Claims.

BondPosted(claimant) ==
    BondAmount > 0 =>
        AvailableEscrow(claimant, deposit_committed[claimant], bonded[claimant]) >= BondAmount

\* What _read_eligibility derives from Arc's clock, read with the verdict.
WithinFilingWindow(request) ==
    writtenAt[request] # 0 /\ now - writtenAt[request] <= FilingWindow

\* check_eligibility: the verdict exists, names the slug, and is recent.  The
\* payer is not compared: the contract has that check switched off.
Eligible(request, slug) ==
    /\ SlugOf[request] = slug
    /\ WithinFilingWindow(request)

Filed(request, claimant) ==
    [claimant |-> claimant, filed_at |-> Bucketed(now), bond |-> BondAmount,
     outcome |-> "OPEN", compensation |-> 0, bounty |-> 0]

\* Mutant: a claim in dispute can be filed again.
FileableAgain(k) == TRUE

\* Mutant: a claim that was settled can be filed again.
FileableOnceSettled(k) == ~Open(k)

Fileable(k) == claims[k] = NoClaim

SubmitClaim(claimant, request, clause, slug) ==
    /\ Fileable(<<request, clause>>)
    /\ BondPosted(claimant)
    /\ Eligible(request, slug)
    /\ claims' = [claims EXCEPT ![<<request, clause>>] = Filed(request, claimant)]
    /\ bonded' = [bonded EXCEPT ![claimant] = @ + BondAmount]
    /\ open_claims' = [open_claims EXCEPT ![slug] = @ + 1]
    /\ Recommit(claimant)
    /\ UNCHANGED <<tokenVars, inFlight, depositVars, arcVars, stakedAt, refused>>

\* settlement_for: total, so a judgment is recorded whatever backs it.
SettlementFor(outcome, paid, deposit, bond) ==
    LET compensation == IF outcome = "BREACH" THEN Least(paid, deposit) ELSE 0
        bounty == CASE outcome = "BREACH" -> Least(BountyAmount, deposit - compensation)
                    [] outcome = "MET" -> Least(BountyAmount, bond)
                    [] OTHER -> 0
    IN  [compensation |-> compensation, bounty |-> bounty,
         from_provider |-> IF outcome = "BREACH" THEN compensation + bounty ELSE 0,
         from_consumer |-> IF outcome = "MET" THEN bounty ELSE 0]

\* The escrow as it is now, at most this slug's share of it.
DepositAvailable(slug) == Least(EscrowOf(deposit_owner[slug]), deposit_amount[slug])
BondAvailable(k) == Least(EscrowOf(claims[k].claimant), claims[k].bond)

Plan(k, outcome) ==
    SettlementFor(outcome, PaidAmount[k[1]], DepositAvailable(SlugOfClaim(k)), BondAvailable(k))

\* The messages of one settlement.  The surplus goes from the claimant to
\* itself, the only way out of an escrow that nobody has a claim on.
SettlementReleases(k, outcome, resolver) ==
    LET plan == Plan(k, outcome)
        provider == deposit_owner[SlugOfClaim(k)]
        claimant == claims[k].claimant
    IN  << <<provider, claimant, plan.compensation>>,
           <<provider, resolver, plan.from_provider - plan.compensation>>,
           <<claimant, resolver, plan.from_consumer>>,
           <<claimant, claimant, BondAvailable(k) - plan.from_consumer>> >>

\* A payment out of the deposit leaves the slug what the escrow had beyond it.
DepositAfter(k, outcome) ==
    IF Plan(k, outcome).from_provider > 0
    THEN DepositAvailable(SlugOfClaim(k)) - Plan(k, outcome).from_provider
    ELSE deposit_amount[SlugOfClaim(k)]

\* Records the outcome and settles it: _settle, at the end of both callers.
Settle(k, outcome, resolver) ==
    LET slug == SlugOfClaim(k)
        provider == deposit_owner[slug]
        plan == Plan(k, outcome)
    IN  /\ claims' = [claims EXCEPT ![k] = [@ EXCEPT
               !.outcome = outcome, !.compensation = plan.compensation, !.bounty = plan.bounty]]
        /\ bonded' = [bonded EXCEPT ![claims[k].claimant] = @ - Least(claims[k].bond, @)]
        /\ open_claims' = [open_claims EXCEPT ![slug] = @ - Least(1, @)]
        /\ deposit_amount' = [deposit_amount EXCEPT ![slug] = DepositAfter(k, outcome)]
        /\ deposit_committed' = [a \in Parties |->
               deposit_committed[a]
                   - (IF a = provider THEN Least(plan.from_provider, deposit_committed[a]) ELSE 0)]
        /\ Emit(SettlementReleases(k, outcome, resolver))
        /\ UNCHANGED <<tokenVars, deposit_owner, withdrawal_requested_at,
                       arcVars, history>>

\* Anyone may have an open claim judged, whenever the evidence can be read.
ResolveClaim(resolver, k) ==
    /\ Open(k)
    /\ \E outcome \in Judgments : Settle(k, outcome, resolver)

\* Mutant: the whole bond must still be there for a claim to be given up.
CancelClaimFullyBonded(sender, k) ==
    /\ Open(k) /\ claims[k].claimant = sender
    /\ Bucketed(now) >= claims[k].filed_at + AdjudicationWindow
    /\ EscrowOf(sender) >= claims[k].bond
    /\ Settle(k, "CANCELLED", sender)

\* The claimant's way out of a claim nobody could judge in time.
CancelClaim(sender, k) ==
    /\ Open(k) /\ claims[k].claimant = sender
    /\ Bucketed(now) >= claims[k].filed_at + AdjudicationWindow
    /\ Settle(k, "CANCELLED", sender)

-----------------------------------------------------------------------------
\* The token and Arc.

judgeVars == <<depositVars, claimVars, history>>

\* A message whose parent is final reaches the token, which may refuse it.
DeliverRelease(x) ==
    /\ inFlight[x] > 0
    /\ inFlight' = [inFlight EXCEPT ![x] = @ - 1]
    /\ \/ Release(Judge, x[1], x[2], x[3]) /\ UNCHANGED refused
       \/ /\ ~Releasable(Judge, x[1], x[3])
          /\ refused' = refused \cup {<<x[1], x[2]>>}
          /\ UNCHANGED tokenVars
    /\ UNCHANGED <<depositVars, claimVars, arcVars, stakedAt, recommitted>>

\* The parties' own use of the token; other custodians have escrows as well.
UseToken(a) ==
    /\ \/ \E v \in Amounts : Mint(a, v)
       \/ \E v \in Amounts, c \in Custodians : Escrow(a, c, v)
       \/ \E v \in Transferred, b \in Parties : Transfer(a, b, v)
       \/ \E v \in Transferred, o, b \in Parties : Release(a, o, b, v)
    /\ UNCHANGED <<inFlight, judgeVars, arcVars>>

WriteVerdict(r) ==
    /\ now <= LastCall /\ writtenAt[r] = 0
    /\ writtenAt' = [writtenAt EXCEPT ![r] = now]
    /\ UNCHANGED <<tokenVars, inFlight, judgeVars, now>>

Tick ==
    /\ now < MaxTime
    /\ now' = now + 1
    /\ UNCHANGED <<tokenVars, inFlight, judgeVars, writtenAt>>

DepositStep ==
    \E a \in Parties, s \in Slugs :
        \/ FundDeposit(a, s)
        \/ RequestWithdrawal(a, s)
        \/ CancelWithdrawal(a, s)
        \/ WithdrawDeposit(a, s)

ClaimStep ==
    \E a \in Parties, k \in Keys :
        \/ \E s \in Slugs : SubmitClaim(a, k[1], k[2], s)
        \/ ResolveClaim(a, k)
        \/ CancelClaim(a, k)

Next ==
    \/ DepositStep
    \/ ClaimStep
    \/ \E x \in Releases : DeliverRelease(x)
    \/ \E a \in Parties : UseToken(a)
    \/ \E r \in Requests : WriteVerdict(r)
    \/ Tick

Spec == Init /\ [][Next]_vars

\* The claimants' own interest closes what nobody resolves, and time passes.
FairSpec ==
    /\ Spec
    /\ WF_vars(Tick)
    /\ \A a \in Parties, k \in Keys : WF_vars(CancelClaim(a, k))

-----------------------------------------------------------------------------
\* The books are amounts, and every record has its type.
TypeOK ==
    /\ TokenTypeOK
    /\ inFlight \in [Releases -> Nat]
    /\ deposit_owner \in [Slugs -> Parties \cup {Nobody}]
    /\ deposit_amount \in [Slugs -> Nat]
    /\ open_claims \in [Slugs -> Nat]
    /\ withdrawal_requested_at \in [Slugs -> 0..MaxTime]
    /\ deposit_committed \in [Parties -> Nat]
    /\ bonded \in [Parties -> Nat]
    /\ claims \in [Keys -> Claim \cup {NoClaim}]
    /\ now \in 0..MaxTime
    /\ writtenAt \in [Requests -> 0..MaxTime]
    /\ stakedAt \in [Slugs -> 0..MaxTime]
    /\ recommitted \subseteq Parties
    /\ refused \subseteq Parties \X Parties

OpenOn(slug) == {k \in Keys : Open(k) /\ SlugOfClaim(k) = slug}
OpenBy(a) == {k \in Keys : Open(k) /\ claims[k].claimant = a}

\* open_claims and bonded, kept by increments and decrements that are clamped
\* at zero, are what the claims themselves add up to, so neither clamp ever
\* hides a miscount and no deposit leaves under a claim that was not counted.
BooksAgree ==
    /\ \A s \in Slugs : open_claims[s] = Cardinality(OpenOn(s))
    /\ \A a \in Parties : bonded[a] = BondAmount * Cardinality(OpenBy(a))

DepositsOf(a) == Total(deposit_amount, {s \in Slugs : deposit_owner[s] = a})

\* What the releases of a flow take out of a's escrow.
Flow(flow, a) == Total([x \in Releases |-> x[3] * flow[x]], {x \in Releases : x[1] = a})

LeavingFrom(a) == Flow(inFlight, a)

\* The escrow of a party covers its deposits, its bonds and every release on
\* its way out, unless the party has committed escrow again while some of it
\* was already leaving; so nobody else's release is ever refused.
EscrowCoversBooks ==
    /\ \A a \in Parties \ recommitted :
           EscrowOf(a) >= LeavingFrom(a) + DepositsOf(a) + bonded[a]
    /\ \A p \in refused : p[1] \in recommitted

\* While a claim on a slug stays open its depositor stays answerable: nobody
\* takes the slug over, and the deposit only falls by settling a claim on that
\* slug, unless its escrow has been committed twice.
DisputeKeepsItsDeposit ==
    [][\A s \in Slugs :
           (OpenOn(s) \cap OpenOn(s)' # {} /\ deposit_owner[s] # Nobody) =>
               /\ deposit_owner'[s] = deposit_owner[s]
               /\ \/ deposit_amount'[s] >= deposit_amount[s]
                  \/ OpenOn(s)' # OpenOn(s)
                  \/ deposit_owner[s] \in recommitted']_vars

\* A deposit that leaves through a withdrawal has outlasted every call made by
\* the time it was last funded or asked back: each is past its filing window,
\* and no claim about any is open, although the request is stamped with a clock
\* that may lag and the release is decided by one that does not.
DepositOutlastsFiling ==
    [][\A s \in Slugs :
           (withdrawal_requested_at[s] # 0 /\ withdrawal_requested_at'[s] = 0
              /\ deposit_amount[s] > 0 /\ deposit_amount'[s] = 0) =>
               /\ OpenOn(s) = {}
               /\ \A r \in Requests :
                      (SlugOf[r] = s /\ writtenAt[r] # 0 /\ writtenAt[r] <= stakedAt[s]) =>
                          now - writtenAt[r] > FilingWindow]_vars

\* A claim that was judged or cancelled keeps its outcome and what was booked
\* for it, whatever is filed, funded or delivered later.
JudgmentIsFinal ==
    [][\A k \in Keys :
           claims[k].outcome \notin {"NONE", "OPEN"} => claims'[k] = claims[k]]_vars

\* Every claim is closed in the end, by a judgment or by its claimant, however
\* much of the escrow behind it has left meanwhile.
EveryClaimCloses == \A k \in Keys : Open(k) ~> ~Open(k)
=============================================================================
