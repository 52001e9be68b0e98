----------------------------- MODULE Reputation ------------------------------
(***************************************************************************)
(* The hourly reputation workflow (cre/workflows/aggregate/workflow.ts):   *)
(* a run reads Arc's head, scans the registrations from the deployment     *)
(* block and the verdicts of a trailing window, both in chunks of blocks,  *)
(* reads each service's live status, and publishes one score per listing   *)
(* through VerdiktScoreWriter.  Arc goes on meanwhile.                     *)
(*                                                                         *)
(* A block holds at most one event.  ACTIVE and SUSPENDED are one status   *)
(* here: both are listings and both are judged.                            *)
(***************************************************************************)
EXTENDS Scores, Totals

CONSTANTS
    Services,
    DeployBlock,        \* registryDeployBlock
    BlockTime, Window,  \* blockTimeSeconds and WINDOW_SECONDS, in one unit
    ChunkBlocks,        \* logChunkBlocks
    MaxBlock,           \* bound on the chain's length
    NoScore

Outcome == {"PASS", "FAIL", "DOWN"}
Blocks == DeployBlock .. MaxBlock

\* assertBlockTimeSeconds and assertLogChunkBlocks.
ASSUME ReputationAssumption ==
    /\ IsFiniteSet(Services)
    /\ DeployBlock \in Nat \ {0} /\ MaxBlock \in Nat /\ DeployBlock <= MaxBlock
    /\ BlockTime \in Nat \ {0} /\ Window \in Nat \ {0} /\ ChunkBlocks \in Nat \ {0}

VARIABLES
    head,       \* Arc's latest block
    log,        \* block -> the registry's event in it
    status,     \* service -> its live status on Arc
    phase,      \* what the run is doing
    headNumber, \* the head it read
    cursor,     \* the next block of its scan
    services,   \* service -> the status it read, "unlisted" before
    seen,       \* block -> how often a verdict scan returned it
    todo,       \* the services it has still to publish
    failed,     \* history: the services this run could not publish
    scores,     \* service -> the text records on its subname
    scoredAt    \* history: the head of the run that wrote them, 0 before

chainVars == <<head, log, status>>
runVars == <<phase, headNumber, cursor, services, seen, todo, failed>>
ensVars == <<scores, scoredAt>>
vars == <<chainVars, runVars, ensVars>>

Event == [kind : {"none"}] \cup [kind : {"registered"}, service : Services]
             \cup [kind : {"verdict"}, service : Services, outcome : Outcome]

Quiet == [kind |-> "none"]
Fresh == [s \in Services |-> "unlisted"]

Init ==
    /\ head = DeployBlock
    /\ log = [b \in Blocks |-> Quiet]
    /\ status = [s \in Services |-> "NONE"]
    /\ phase = "idle"
    /\ headNumber = DeployBlock /\ cursor = DeployBlock
    /\ services = Fresh
    /\ seen = [b \in Blocks |-> 0]
    /\ todo = {} /\ failed = {}
    /\ scores = [s \in Services |-> NoScore] /\ scoredAt = [s \in Services |-> 0]

-----------------------------------------------------------------------------
\* Arc.

Mine(event) ==
    /\ head < MaxBlock
    /\ head' = head + 1
    /\ log' = [log EXCEPT ![head + 1] = event]
    /\ UNCHANGED <<runVars, ensVars>>

MineQuiet == Mine(Quiet) /\ UNCHANGED status

Register(s) ==
    /\ status[s] = "NONE"
    /\ status' = [status EXCEPT ![s] = "LISTED"]
    /\ Mine([kind |-> "registered", service |-> s])

Judge(s, outcome) ==
    /\ status[s] = "LISTED"
    /\ Mine([kind |-> "verdict", service |-> s, outcome |-> outcome])
    /\ UNCHANGED status

Deregister(s) ==
    /\ status[s] = "LISTED"
    /\ status' = [status EXCEPT ![s] = "DEREGISTERED"]
    /\ Mine(Quiet)

Arc ==
    \/ MineQuiet
    \/ \E s \in Services : \/ Register(s) \/ Deregister(s)
                           \/ \E outcome \in Outcome : Judge(s, outcome)

-----------------------------------------------------------------------------
\* A run: onSchedule.

StartRun ==
    /\ phase = "idle"
    /\ phase' = "registrations"
    /\ headNumber' = head
    /\ cursor' = DeployBlock
    /\ services' = Fresh /\ seen' = [b \in Blocks |-> 0]
    /\ todo' = {} /\ failed' = {}
    /\ UNCHANGED <<chainVars, ensVars>>

\* Mutant: a chunk spans one block more than the next one leaves it.
ChunkOverlapping ==
    {b \in Blocks : cursor <= b /\ b <= cursor + ChunkBlocks /\ b <= headNumber}

\* blockRangeChunks: both ends inclusive, the last one cut at the head.
Chunk == {b \in Blocks : cursor <= b /\ b <= cursor + ChunkBlocks - 1 /\ b <= headNumber}

ScanRegistrations ==
    /\ phase = "registrations" /\ cursor <= headNumber
    /\ services' = [s \in Services |->
           IF \E b \in Chunk : log[b] = [kind |-> "registered", service |-> s]
           THEN "found" ELSE services[s]]
    /\ cursor' = cursor + ChunkBlocks
    /\ UNCHANGED <<chainVars, phase, headNumber, seen, todo, failed, ensVars>>

\* getService answers with the status now, not the one at the head.
ReadStatus(s) ==
    /\ phase = "registrations" /\ cursor > headNumber
    /\ services[s] = "found"
    /\ services' = [services EXCEPT ![s] = status[s]]
    /\ UNCHANGED <<chainVars, phase, headNumber, cursor, seen, todo, failed, ensVars>>

windowBlocks == (Window + BlockTime - 1) \div BlockTime

fromBlock ==
    IF headNumber > windowBlocks + DeployBlock THEN headNumber - windowBlocks ELSE DeployBlock

StartVerdicts ==
    /\ phase = "registrations" /\ cursor > headNumber
    /\ \A s \in Services : services[s] # "found"
    /\ phase' = "verdicts"
    /\ cursor' = fromBlock
    /\ UNCHANGED <<chainVars, headNumber, services, seen, todo, failed, ensVars>>

ScanVerdicts ==
    /\ phase = "verdicts" /\ cursor <= headNumber
    /\ seen' = [b \in Blocks |-> IF b \in Chunk THEN seen[b] + 1 ELSE seen[b]]
    /\ cursor' = cursor + ChunkBlocks
    /\ UNCHANGED <<chainVars, phase, headNumber, services, todo, failed, ensVars>>

\* Mutant: only the services the window has verdicts of are scored.
ListedByVerdicts == {s \in Services : services[s] = "LISTED" /\ \E b \in Blocks :
                         seen[b] > 0 /\ log[b].kind = "verdict" /\ log[b].service = s}

Listed == {s \in Services : services[s] = "LISTED"}

Compute ==
    /\ phase = "verdicts" /\ cursor > headNumber
    /\ phase' = "publishing"
    /\ todo' = Listed
    /\ UNCHANGED <<chainVars, headNumber, cursor, services, seen, failed, ensVars>>

\* timestampOfBlock dates a log from the head; what is left of the window is
\* half-open.  Both ends are measured from the head, whose own time drops out.
Recent(b) == (headNumber - b) * BlockTime < Window

Counted(s, outcome, b) ==
    log[b] = [kind |-> "verdict", service |-> s, outcome |-> outcome] /\ Recent(b)

Tally(s, outcome) == Total(seen, {b \in Blocks : Counted(s, outcome, b)})

\* onReport sets both texts, or reverts.
Publish(s) ==
    /\ phase = "publishing" /\ s \in todo
    /\ todo' = todo \ {s}
    /\ scores' = [scores EXCEPT ![s] =
           aggregateWindow(Tally(s, "PASS"), Tally(s, "FAIL"), Tally(s, "DOWN"))]
    /\ scoredAt' = [scoredAt EXCEPT ![s] = headNumber]
    /\ UNCHANGED <<chainVars, phase, headNumber, cursor, services, seen, failed>>

\* The write fails, or mines with the receiver's revert swallowed; the run goes
\* on with the next service.
PublishFails(s) ==
    /\ phase = "publishing" /\ s \in todo
    /\ todo' = todo \ {s} /\ failed' = failed \cup {s}
    /\ UNCHANGED <<chainVars, phase, headNumber, cursor, services, seen, ensVars>>

EndRun ==
    /\ phase = "publishing" /\ todo = {}
    /\ phase' = "idle"
    /\ UNCHANGED <<chainVars, headNumber, cursor, services, seen, todo, failed, ensVars>>

\* A read throws: nothing more is published, what was stays.
RunFails ==
    /\ phase # "idle"
    /\ phase' = "idle"
    /\ UNCHANGED <<chainVars, headNumber, cursor, services, seen, todo, failed, ensVars>>

Scan == ScanRegistrations \/ StartVerdicts \/ ScanVerdicts \/ Compute
OfService(s) == ReadStatus(s) \/ Publish(s) \/ PublishFails(s)

Next ==
    \/ Arc
    \/ StartRun \/ Scan \/ EndRun \/ RunFails
    \/ \E s \in Services : OfService(s)

Spec == Init /\ [][Next]_vars

-----------------------------------------------------------------------------
TypeOK ==
    /\ head \in Blocks /\ headNumber \in Blocks /\ headNumber <= head
    /\ log \in [Blocks -> Event]
    /\ status \in [Services -> {"NONE", "LISTED", "DEREGISTERED"}]
    /\ phase \in {"idle", "registrations", "verdicts", "publishing"}
    /\ cursor \in Nat
    /\ services \in [Services -> {"unlisted", "found", "LISTED", "DEREGISTERED"}]
    /\ seen \in [Blocks -> Nat]
    /\ todo \subseteq Services /\ failed \subseteq Services
    /\ scoredAt \in [Services -> {0} \cup Blocks]
    /\ \A s \in Services : scoredAt[s] # 0 => scores[s].conformance \in 0 .. SCORE_SCALE

\* What a run publishes from is each block of its window once, the one at a
\* chunk's boundary like any other, though the window is measured in time and
\* the scan in blocks; and none that came after its head.
WindowCountedOnce ==
    phase = "publishing" => \A b \in Blocks :
        /\ b <= headNumber /\ Recent(b) => seen[b] = 1
        /\ seen[b] <= IF b <= headNumber THEN 1 ELSE 0

\* A published score stays what the log says of the window that ended at its
\* run's head, however far the chain went on during the run: the largest marks
\* that do not overstate the shares, and full ones where nothing is known.
InWindow(s, h) == {b \in DeployBlock .. h : (h - b) * BlockTime < Window /\
                       log[b].kind = "verdict" /\ log[b].service = s}
Share(of, all, mark) ==
    IF all = {} THEN mark = SCORE_SCALE
    ELSE /\ mark * Cardinality(all) <= SCORE_SCALE * Cardinality(of)
         /\ (mark + 1) * Cardinality(all) > SCORE_SCALE * Cardinality(of)

ScoresAreOfTheirWindow ==
    \A s \in Services : scoredAt[s] # 0 =>
        LET all == InWindow(s, scoredAt[s])
            answered == {b \in all : log[b].outcome # "DOWN"}
            passed == {b \in all : log[b].outcome = "PASS"}
        IN  /\ Share(passed, answered, scores[s].conformance)
            /\ Share(answered, all, scores[s].availability)

\* A run that came to its end scored every listing, those nobody called too:
\* only a service gone from Arc, or a write that failed, keeps an old score.
EveryListingIsScored ==
    phase = "publishing" /\ todo = {} =>
        \A s \in Services \ failed :
            (status[s] = "LISTED" /\ \E b \in DeployBlock .. headNumber :
                 log[b] = [kind |-> "registered", service |-> s])
            => scoredAt[s] = headNumber
=============================================================================
