------------------------------- MODULE Dispute -------------------------------
(***************************************************************************)
(* One disputed call, from its verdict to the closing of its claim: the    *)
(* evidence cache, the judge's consensus round over it                     *)
(* (sla_claim_judge.py, _judge) and the scheduled resolver                 *)
(* (runner/bin/resolve-claims.mjs) that asks for the round.                *)
(*                                                                         *)
(* The leader and the validator each read the evidence themselves and      *)
(* judge it themselves; only the outcomes are compared.  What a judgment   *)
(* pays is ClaimJudge's; who may claim, too.  The claimant is not the      *)
(* resolver, which leaves its own claims alone.                            *)
(*                                                                         *)
(* The schedule starts the resolver every two minutes, and one receipt may *)
(* take it four: runs overlap.  Each works on its own copy of the state    *)
(* file, which it puts back at its end, and a file is written by being     *)
(* emptied first.  Of the file only this claim's entry is kept.            *)
(***************************************************************************)
EXTENDS EvidenceCache, Sequences, FiniteSets

CONSTANTS
    FilingWindow,           \* filing_window_seconds
    AdjudicationWindow,     \* ADJUDICATION_WINDOW_SECONDS
    MaxAttempts,            \* RESOLVER_MAX_ATTEMPTS
    MaxQueue,               \* bound on resolve_claim transactions in flight
    MaxRuns,                \* bound on the resolver runs at work together
    MaxMishaps              \* bound on the runs that are lost or begin beside another

Judges == {"leader", "validator"}
Runs == 1 .. MaxRuns

ASSUME DisputeAssumption ==
    /\ Judges \subseteq Readers
    /\ FilingWindow \in Nat /\ AdjudicationWindow \in Nat
    /\ MaxAttempts \in Nat \ {0} /\ MaxQueue \in Nat \ {0}
    /\ MaxRuns \in Nat \ {0} /\ MaxMishaps \in Nat

VARIABLES
    writtenAt,  \* verdict.writtenAt on Arc, 0 before
    claim,      \* the claim's outcome, "none" before it is filed
    filedAt,
    txs,        \* the resolve_claim transactions in flight, in order: of a run, or other's
    round,      \* "idle", or "reading" while the first of txs is executed
    job,        \* run -> where it is
    attempts,   \* run -> its copy of the claim's failures
    saved,      \* the failures in the state file, 0 if it cannot be read
    text,       \* "whole", or "empty" or "garbled" and not to be read
    sent,       \* history: transactions the runs sent
    mishaps,    \* history: runs that were lost, or began beside another
    unread      \* history: runs that could not read the file

claimVars == <<writtenAt, claim, filedAt>>
fileVars == <<saved, text>>
tally == <<sent, mishaps, unread>>
jobVars == <<job, attempts, fileVars, tally>>
disputeVars == <<claimVars, txs, round, jobVars>>
vars == <<cacheVars, disputeVars>>

Closed == {"MET", "BREACH", "UNDETERMINED", "CANCELLED"}

Init ==
    /\ CacheInit
    /\ writtenAt = 0 /\ claim = "none" /\ filedAt = 0
    /\ txs = << >> /\ round = "idle"
    /\ job = [r \in Runs |-> "idle"] /\ attempts = [r \in Runs |-> 0]
    /\ saved = 0 /\ text = "whole"
    /\ sent = 0 /\ mishaps = 0 /\ unread = 0

-----------------------------------------------------------------------------
\* The call.

\* The DON writes the verdict before the proxy hears of the call's result.
WriteVerdict ==
    /\ writtenAt = 0 /\ storedAt = 0
    /\ writtenAt' = now
    /\ UNCHANGED <<cacheVars, claim, filedAt, txs, round, jobVars>>

StoreEvidence ==
    /\ writtenAt # 0
    /\ Store
    /\ UNCHANGED disputeVars

FileClaim ==
    /\ claim = "none"
    /\ writtenAt # 0 /\ now - writtenAt <= FilingWindow
    /\ claim' = "OPEN" /\ filedAt' = now
    /\ UNCHANGED <<cacheVars, writtenAt, txs, round, jobVars>>

\* Between two transactions, never while one is executed.
CancelClaim ==
    /\ claim = "OPEN" /\ round = "idle"
    /\ now >= filedAt + AdjudicationWindow
    /\ claim' = "CANCELLED"
    /\ UNCHANGED <<cacheVars, writtenAt, filedAt, txs, round, jobVars>>

-----------------------------------------------------------------------------
\* handleEvidenceRead: a preview by anyone, or one of a round's readings.

MayRead(r) ==
    /\ writtenAt # 0 /\ handler = "idle"
    /\ r \in Judges => round = "reading" /\ answers[r] = "none"
    /\ r = "validator" => answers["leader"] # "none"

\* authorizeDisclosure could not reach the registry: 503.
GateFails(r) ==
    /\ MayRead(r)
    /\ Told(r, "failed")
    /\ UNCHANGED <<now, storage, alarm, handler, storedAt, torn, disputeVars>>

ReadEvidence(r) ==
    /\ handler = r \/ MayRead(r)
    /\ Read(r)
    /\ UNCHANGED disputeVars

-----------------------------------------------------------------------------
\* The round.

\* What a node can make of a reading: missing evidence is undecidable, and so
\* is an envelope that cannot be judged; two models may differ on the rest.
Judgments(reading) ==
    CASE reading = "found" -> {"MET", "BREACH", "UNDETERMINED"}
      [] reading = "missing" -> {"UNDETERMINED"}
      [] OTHER -> {"error"}

StartRound ==
    /\ round = "idle" /\ txs # << >>
    /\ claim = "OPEN"
    /\ round' = "reading"
    /\ UNCHANGED <<cacheVars, claimVars, txs, jobVars>>

\* The first transaction in flight ends, and the run that waits for it hears.
Execute(result) ==
    /\ txs' = Tail(txs)
    /\ round' = "idle"
    /\ job' = [r \in Runs |-> IF Head(txs) = r THEN result ELSE job[r]]
    /\ UNCHANGED <<now, storage, alarm, handler, storedAt, answeredAt, torn,
                   writtenAt, filedAt, attempts, fileVars, tally>>

\* Mutant: the validator takes the leader's outcome, whatever it read itself.
DecideAsLeader ==
    /\ round = "reading" /\ \A r \in Judges : answers[r] # "none"
    /\ \E outcome \in Judgments(answers["leader"]) \ {"error"} :
           claim' = outcome
    /\ UNCHANGED answers
    /\ Execute("ok")

\* The validator came to the leader's outcome.
Decide ==
    /\ round = "reading" /\ \A r \in Judges : answers[r] # "none"
    /\ \E outcome \in Closed \cap Judgments(answers["leader"])
                              \cap Judgments(answers["validator"]) :
           claim' = outcome
    /\ UNCHANGED answers
    /\ Execute("ok")

\* They differed, or a reading raised: nothing is written, and the next round
\* reads anew.
Rotate ==
    /\ round = "reading" /\ \A r \in Judges : answers[r] # "none"
    /\ \E l \in Judgments(answers["leader"]), v \in Judgments(answers["validator"]) :
           l # v \/ l = "error"
    /\ answers' = [r \in Readers |-> IF r \in Judges THEN "none" ELSE answers[r]]
    /\ UNCHANGED claim
    /\ Execute("error")

\* _require_open raises.
Reject ==
    /\ round = "idle" /\ txs # << >>
    /\ claim # "OPEN"
    /\ UNCHANGED <<claim, answers>>
    /\ Execute("error")

Other == 0

\* Resolving is open to anyone; bound: into an empty queue.
OthersResolve ==
    /\ claim = "OPEN" /\ txs = << >>
    /\ txs' = Append(txs, Other)
    /\ UNCHANGED <<cacheVars, claimVars, round, jobVars>>

-----------------------------------------------------------------------------
\* The resolver's runs.

AtWork == {r \in Runs : job[r] # "idle"}

\* list_claims finds the claim open.  A run may begin while others are at work.
List(r) ==
    /\ job[r] = "idle" /\ \A q \in 1 .. r - 1 : q \in AtWork
    /\ claim = "OPEN"
    /\ AtWork # {} => mishaps < MaxMishaps
    /\ mishaps' = IF AtWork = {} THEN mishaps ELSE mishaps + 1
    /\ job' = [job EXCEPT ![r] = "listed"]
    /\ UNCHANGED <<cacheVars, claimVars, txs, round, attempts, fileVars, sent, unread>>

\* Mutant: the entry is looked up under another key than it is kept under.
LoadElsewhere(r) ==
    /\ job[r] = "listed"
    /\ job' = [job EXCEPT ![r] = "started"]
    /\ attempts' = [attempts EXCEPT ![r] = 0]
    /\ unread' = IF text = "whole" THEN unread ELSE unread + 1
    /\ UNCHANGED <<cacheVars, claimVars, txs, round, fileVars, sent, mishaps>>

\* loadState: a file that cannot be read says that nothing has failed.
Load(r) ==
    /\ job[r] = "listed"
    /\ job' = [job EXCEPT ![r] = "started"]
    /\ attempts' = [attempts EXCEPT ![r] = saved]
    /\ unread' = IF text = "whole" THEN unread ELSE unread + 1
    /\ UNCHANGED <<cacheVars, claimVars, txs, round, fileVars, sent, mishaps>>

\* How often the runs may try the claim, all together; sent is counted until it
\* is past it.
Limit == MaxAttempts * (1 + unread) + mishaps

\* writeContract: the claim may have been closed since it was listed.
Send(r) ==
    /\ job[r] = "started" /\ attempts[r] < MaxAttempts
    /\ Len(txs) < MaxQueue
    /\ job' = [job EXCEPT ![r] = "waiting"]
    /\ txs' = Append(txs, r)
    /\ sent' = IF sent > Limit THEN sent ELSE sent + 1
    /\ UNCHANGED <<cacheVars, claimVars, round, attempts, fileVars, mishaps, unread>>

\* The fees cannot be estimated, or the write is refused: nothing is sent.
SendFails(r) ==
    /\ job[r] = "started" /\ attempts[r] < MaxAttempts
    /\ job' = [job EXCEPT ![r] = "error"]
    /\ UNCHANGED <<cacheVars, claimVars, txs, round, attempts, fileVars, tally>>

\* The transaction r waited for is nobody's any more.
Orphaned(r) == [i \in DOMAIN txs |-> IF txs[i] = r THEN Other ELSE txs[i]]

\* waitForTransactionReceipt gives up; the transaction does not.
ReceiptTimeout(r) ==
    /\ job[r] = "waiting"
    /\ job' = [job EXCEPT ![r] = "error"]
    /\ txs' = Orphaned(r)
    /\ UNCHANGED <<cacheVars, claimVars, round, attempts, fileVars, tally>>

\* writeFile empties the file before it writes to it.
Truncate(r, count) ==
    /\ job' = [job EXCEPT ![r] = "writing"]
    /\ attempts' = [attempts EXCEPT ![r] = count]
    /\ saved' = 0 /\ text' = "empty"
    /\ UNCHANGED <<cacheVars, claimVars, txs, round, tally>>

Skip(r) ==
    /\ job[r] = "started" /\ attempts[r] >= MaxAttempts
    /\ Truncate(r, attempts[r])

\* Mutant: the entry is dropped whatever became of the transaction.
CountNothing(r) ==
    /\ job[r] \in {"ok", "error"}
    /\ Truncate(r, 0)

\* A success deletes the entry, unless reading the claim back fails; anything
\* else counts.
Count(r) ==
    /\ job[r] \in {"ok", "error"}
    /\ \/ job[r] = "ok" /\ Truncate(r, 0)
       \/ Truncate(r, attempts[r] + 1)

Garbled == saved' = 0 /\ text' = "garbled"

\* saveState: a file that another run has written to since it was emptied may
\* come out a mixture of both.
SaveState(r) ==
    /\ job[r] = "writing"
    /\ job' = [job EXCEPT ![r] = "idle"]
    /\ attempts' = [attempts EXCEPT ![r] = 0]
    /\ \/ saved' = attempts[r] /\ text' = "whole"
       \/ text # "empty" /\ Garbled
    /\ UNCHANGED <<cacheVars, claimVars, txs, round, tally>>

\* The process dies, or its file cannot be opened, or not all of it written; the
\* next run knows nothing of this one.
RunLost(r) ==
    /\ r \in AtWork /\ mishaps < MaxMishaps
    /\ job' = [job EXCEPT ![r] = "idle"]
    /\ attempts' = [attempts EXCEPT ![r] = 0]
    /\ txs' = Orphaned(r)
    /\ mishaps' = mishaps + 1
    /\ \/ UNCHANGED fileVars
       \/ job[r] = "writing" /\ Garbled
    /\ UNCHANGED <<cacheVars, claimVars, round, sent, unread>>

-----------------------------------------------------------------------------
CacheStep ==
    /\ ResetInHandler \/ AlarmFires \/ Tick
    /\ UNCHANGED disputeVars

Reads(r) == GateFails(r) \/ ReadEvidence(r)
Round == StartRound \/ Decide \/ Rotate \/ Reject
Step(r) ==
    \/ List(r) \/ Load(r) \/ Skip(r) \/ Send(r) \/ SendFails(r) \/ ReceiptTimeout(r)
    \/ Count(r) \/ SaveState(r) \/ RunLost(r)
Run == \E r \in Runs : Step(r)

Next ==
    \/ WriteVerdict \/ StoreEvidence \/ FileClaim \/ CancelClaim
    \/ \E r \in Readers : Reads(r)
    \/ Round \/ OthersResolve \/ Run \/ CacheStep

Progress(r) == List(r) \/ Load(r) \/ Skip(r) \/ Send(r) \/ Count(r) \/ SaveState(r)

\* The schedule starts the resolver again and again and some run goes on, and
\* what it waits for, the judge's nodes and the object, does not stop.
Fairness ==
    /\ WF_vars(\E r \in Runs : Progress(r))
    /\ WF_vars(Round \/ StoreEvidence \/ \E r \in Judges : Reads(r))

Spec == Init /\ [][Next]_vars
FairSpec == Spec /\ Fairness

-----------------------------------------------------------------------------
TypeOK ==
    /\ CacheTypeOK
    /\ writtenAt \in 0 .. MaxTime /\ filedAt \in 0 .. MaxTime
    /\ claim \in {"none", "OPEN"} \cup Closed
    /\ txs \in Seq(Runs \cup {Other}) /\ Len(txs) <= MaxQueue
    /\ round \in {"idle", "reading"}
    /\ job \in [Runs -> {"idle", "listed", "started", "waiting", "ok", "error", "writing"}]
    /\ attempts \in [Runs -> 0 .. MaxAttempts] /\ saved \in 0 .. MaxAttempts
    /\ text \in {"whole", "empty", "garbled"} /\ (text # "whole" => saved = 0)
    /\ sent \in Nat /\ mishaps \in 0 .. MaxMishaps /\ unread \in Nat
    /\ \A r \in Runs : job[r] = "waiting" <=> \E i \in DOMAIN txs : txs[i] = r

\* The runway is what lets the validator read what the leader was shown: they
\* part over whether there is evidence only after it, or when a reset cut it
\* short.
ValidatorSeesWhatLeaderSaw ==
    answers["leader"] = "found" /\ answers["validator"] = "missing" /\ torn = {} =>
        now >= answeredAt + AdjudicationTtl

\* A claim is judged on its merits only if the evidence was stored, and both
\* the leader and the validator were shown it.
MeritsNeedTwoReadings ==
    claim \in {"MET", "BREACH"} =>
        storedAt # 0 /\ \A r \in Judges : answers[r] = "found"

\* How far a poisoned claim is retried: the runs together stay within the limit,
\* and one more for each run that was lost or began beside another, whose copy
\* is stale; each run that could not read the file starts counting anew.
AttemptsAreRemembered == sent <= Limit

\* The resolver leaves no claim: it is closed, or left to a human with all of
\* its attempts used, although runs and their answers get lost.
ClaimsAreWorkedOff == claim = "OPEN" ~> claim # "OPEN" \/ saved = MaxAttempts
=============================================================================
