-------------------------- MODULE WorkflowProofs ----------------------------
(***************************************************************************)
(* Theorems about the two CRE workflows.  Of Reputation: for any services,  *)
(* block time, window, chunk width and length of the chain.  Of             *)
(* JsonSchema: for any schemas and values that are trees.  Of               *)
(* VerifyWorkflow: for any records, observations, Ttl and sizes.            *)
(***************************************************************************)
EXTENDS Reputation, VerifyWorkflow, TotalsProofs, SequenceTheorems, WellFoundedInduction

\* A share that is not the whole never reads as full marks: division floors.
THEOREM OnlyTheWholeIsPerfect ==
    ASSUME NEW part \in Nat, NEW whole \in Nat \ {0}, part < whole
    PROVE  Ratio(part, whole) \in 0 .. SCORE_SCALE - 1
<1>1. part * SCORE_SCALE \in Nat /\ part * SCORE_SCALE < SCORE_SCALE * whole
  BY DEF SCORE_SCALE
<1>2. \A a \in Nat, c \in Nat : a < c * whole => a \div whole \in 0 .. c - 1
  OBVIOUS
<1>3. (part * SCORE_SCALE) \div whole \in 0 .. SCORE_SCALE - 1
  BY <1>1, <1>2 DEF SCORE_SCALE
<1>4. QED
  BY <1>3 DEF Ratio

RunType ==
    /\ head \in Blocks /\ headNumber \in Blocks /\ headNumber <= head
    /\ phase \in {"idle", "registrations", "verdicts", "publishing"}
    /\ cursor \in Nat /\ cursor >= DeployBlock
    /\ seen \in [Blocks -> Nat]

\* The scan has returned the blocks from its start to its cursor, once each.
SeenInv ==
    /\ phase = "registrations" => \A b \in Blocks : seen[b] = 0
    /\ phase = "verdicts" =>
           /\ cursor >= fromBlock
           /\ \A b \in Blocks :
                  seen[b] = IF fromBlock <= b /\ b < cursor /\ b <= headNumber THEN 1 ELSE 0
    /\ phase = "publishing" =>
           \A b \in Blocks : seen[b] = IF fromBlock <= b /\ b <= headNumber THEN 1 ELSE 0

WindowInv == RunType /\ SeenInv

LEMMA WindowStarts ==
    ASSUME RunType
    PROVE  /\ windowBlocks \in Nat
           /\ fromBlock \in Nat /\ fromBlock >= DeployBlock
           /\ \A b \in Blocks : b <= headNumber /\ Recent(b) => fromBlock <= b
<1> USE ReputationAssumption DEF RunType, Blocks
<1>1. windowBlocks \in Nat /\ windowBlocks * BlockTime >= Window
  <2>1. \A a \in Nat, d \in Nat \ {0} : a \div d \in Nat /\ (a \div d + 1) * d > a
    OBVIOUS
  <2>2. Window + BlockTime - 1 \in Nat
    OBVIOUS
  <2>3. windowBlocks \in Nat /\ (windowBlocks + 1) * BlockTime > Window + BlockTime - 1
    BY <2>1, <2>2 DEF windowBlocks
  <2>4. (windowBlocks + 1) * BlockTime = windowBlocks * BlockTime + BlockTime
    BY <2>3
  <2>5. QED
    BY <2>3, <2>4
<1>2. fromBlock \in Nat /\ fromBlock >= DeployBlock
  BY <1>1 DEF fromBlock
<1>3. ASSUME NEW b \in Blocks, b <= headNumber, Recent(b) PROVE fromBlock <= b
  <2>1. (headNumber - b) * BlockTime < windowBlocks * BlockTime
    BY <1>1, <1>3 DEF Recent
  <2>2. headNumber - b \in Nat
    BY <1>3
  <2>3. headNumber - b < windowBlocks
    <3>1. \A x, y \in Nat, d \in Nat \ {0} : x >= y => x * d >= y * d
      OBVIOUS
    <3>2. QED
      BY <2>1, <2>2, <1>1, <3>1
  <2>4. QED
    BY <2>3, <1>1, <1>3 DEF fromBlock
<1>4. QED
  BY <1>1, <1>2, <1>3

LEMMA WindowBlocksNat == windowBlocks \in Nat
<1>1. \A a \in Nat, d \in Nat \ {0} : a \div d \in Nat
  OBVIOUS
<1>2. QED
  BY <1>1, ReputationAssumption DEF windowBlocks

LEMMA InitWindow == Init => WindowInv
BY ReputationAssumption DEF Init, WindowInv, RunType, SeenInv, Blocks

LEMMA ArcWindow ==
    ASSUME WindowInv, Arc
    PROVE  WindowInv'
<1>1. head' = head + 1 /\ head < MaxBlock /\ UNCHANGED runVars
  BY DEF Arc, MineQuiet, Register, Judge, Deregister, Mine
<1>2. RunType'
  BY <1>1, ReputationAssumption DEF WindowInv, RunType, runVars, Blocks
<1>3. fromBlock' = fromBlock
  BY <1>1 DEF fromBlock, windowBlocks, runVars
<1>4. SeenInv'
  BY <1>1, <1>3 DEF WindowInv, SeenInv, runVars
<1>5. QED
  BY <1>2, <1>4 DEF WindowInv

LEMMA ScanWindow ==
    ASSUME WindowInv, Scan
    PROVE  WindowInv'
<1> USE ReputationAssumption DEF WindowInv, chainVars, ensVars
<1>0. fromBlock' = fromBlock /\ UNCHANGED <<head, headNumber>>
  BY DEF Scan, ScanRegistrations, StartVerdicts, ScanVerdicts, Compute, fromBlock, windowBlocks
<1>w. fromBlock \in Nat /\ fromBlock >= DeployBlock
  BY WindowStarts
<1>1. CASE ScanRegistrations
  BY <1>0, <1>1 DEF ScanRegistrations, RunType, SeenInv
<1>2. CASE StartVerdicts
  BY <1>0, <1>w, <1>2 DEF StartVerdicts, RunType, SeenInv, Blocks
<1>3. CASE ScanVerdicts
  <2>1. /\ phase = "verdicts" /\ phase' = "verdicts" /\ cursor <= headNumber
        /\ cursor' = cursor + ChunkBlocks
        /\ seen' = [b \in Blocks |-> IF b \in Chunk THEN seen[b] + 1 ELSE seen[b]]
    BY <1>3 DEF ScanVerdicts
  <2>2. RunType'
    BY <1>0, <2>1 DEF RunType
  <2>3. ASSUME NEW b \in Blocks
        PROVE  seen'[b] = IF fromBlock <= b /\ b < cursor' /\ b <= headNumber THEN 1 ELSE 0
    <3>1. seen[b] = IF fromBlock <= b /\ b < cursor /\ b <= headNumber THEN 1 ELSE 0
      BY <2>1 DEF SeenInv
    <3>2. b \in Chunk <=> cursor <= b /\ b <= cursor + ChunkBlocks - 1 /\ b <= headNumber
      BY DEF Chunk
    <3>3. cursor >= fromBlock
      BY <2>1 DEF SeenInv
    <3>4. seen'[b] = IF b \in Chunk THEN seen[b] + 1 ELSE seen[b]
      BY <2>1
    <3>5. QED
      BY <2>1, <3>1, <3>2, <3>3, <3>4, <1>w DEF RunType, Blocks
  <2>4. cursor' >= fromBlock
    BY <2>1, <1>w DEF SeenInv, RunType
  <2>5. SeenInv'
    BY <1>0, <2>1, <2>3, <2>4 DEF SeenInv
  <2>6. QED
    BY <2>2, <2>5
<1>4. CASE Compute
  <2>1. RunType'
    BY <1>0, <1>4 DEF Compute, RunType
  <2>2. ASSUME NEW b \in Blocks
        PROVE  seen'[b] = IF fromBlock <= b /\ b <= headNumber THEN 1 ELSE 0
    BY <1>4, <1>w DEF Compute, SeenInv, RunType, Blocks
  <2>3. SeenInv'
    BY <1>0, <1>4, <2>2 DEF Compute, SeenInv
  <2>4. QED
    BY <2>1, <2>3
<1>5. QED
  BY <1>1, <1>2, <1>3, <1>4 DEF Scan

LEMMA StepWindow == WindowInv /\ [Next]_vars => WindowInv'
<1> SUFFICES ASSUME WindowInv, [Next]_vars PROVE WindowInv'
  OBVIOUS
<1> USE DEF WindowInv, chainVars, ensVars
<1>1. CASE Arc
  BY <1>1, ArcWindow
<1>2. CASE Scan
  BY <1>2, ScanWindow
<1>3. CASE StartRun
  BY <1>3, ReputationAssumption DEF StartRun, RunType, SeenInv, Blocks
<1>4. CASE EndRun \/ RunFails
  BY <1>4 DEF EndRun, RunFails, RunType, SeenInv
<1>5. ASSUME NEW s \in Services, OfService(s) PROVE WindowInv'
  BY <1>5 DEF OfService, ReadStatus, Publish, PublishFails, RunType, SeenInv,
              fromBlock, windowBlocks
<1>6. CASE UNCHANGED vars
  BY <1>6 DEF vars, runVars, RunType, SeenInv, fromBlock, windowBlocks
<1>7. QED
  BY <1>1, <1>2, <1>3, <1>4, <1>5, <1>6 DEF Next

\* Across every chunk boundary and however the window divides into blocks, a
\* run counts each block of its window once and none after its head.
THEOREM WindowIsCountedOnce == Spec => []WindowCountedOnce
<1>1. WindowInv => WindowCountedOnce
  <2> SUFFICES ASSUME WindowInv, phase = "publishing", NEW b \in Blocks
               PROVE  /\ b <= headNumber /\ Recent(b) => seen[b] = 1
                      /\ seen[b] <= IF b <= headNumber THEN 1 ELSE 0
    BY DEF WindowCountedOnce
  <2>1. seen[b] = IF fromBlock <= b /\ b <= headNumber THEN 1 ELSE 0
    BY DEF WindowInv, SeenInv
  <2>2. b <= headNumber /\ Recent(b) => fromBlock <= b
    BY WindowStarts DEF WindowInv
  <2>3. QED
    BY <2>1, <2>2
<1>2. QED
  BY <1>1, InitWindow, StepWindow, PTL DEF Spec

-----------------------------------------------------------------------------
Reg(s) == [kind |-> "registered", service |-> s]

ListType ==
    /\ head \in Blocks /\ headNumber \in Blocks /\ headNumber <= head
    /\ cursor \in Nat
    /\ phase \in {"idle", "registrations", "verdicts", "publishing"}
    /\ log \in [Blocks -> Event]
    /\ status \in [Services -> {"NONE", "LISTED", "DEREGISTERED"}]
    /\ services \in [Services -> {"unlisted", "found", "LISTED", "DEREGISTERED"}]
    /\ todo \subseteq Services /\ failed \subseteq Services
    /\ DOMAIN scoredAt = Services

\* What Arc's log and what the run read say of its status now.
ArcInv ==
    /\ \A s \in Services, b \in Blocks : log[b] = Reg(s) => status[s] # "NONE"
    /\ \A s \in Services : services[s] # "unlisted" => status[s] # "NONE"
    /\ \A s \in Services : services[s] = "DEREGISTERED" => status[s] = "DEREGISTERED"

\* Whoever was registered in a scanned block is known to the run.
FoundInv ==
    /\ phase = "registrations" => \A s \in Services, b \in Blocks :
           b < cursor /\ b <= headNumber /\ log[b] = Reg(s) => services[s] # "unlisted"
    /\ phase \in {"verdicts", "publishing"} => \A s \in Services, b \in Blocks :
           b <= headNumber /\ log[b] = Reg(s) => services[s] \in {"LISTED", "DEREGISTERED"}

\* Whoever is listed is still to be published, could not be, or was.
ScoredInv ==
    phase = "publishing" => \A s \in Services :
        services[s] = "LISTED" => s \in todo \/ s \in failed \/ scoredAt[s] = headNumber

ListInv == ListType /\ ArcInv /\ FoundInv /\ ScoredInv

LEMMA InitList == Init => ListInv
BY ReputationAssumption
   DEF Init, ListInv, ListType, ArcInv, FoundInv, ScoredInv, Blocks, Event, Quiet, Fresh, Reg

\* Arc goes on after the head a run has read.
LEMMA ArcList ==
    ASSUME ListInv, Arc
    PROVE  ListInv'
<1> USE ReputationAssumption DEF ListInv, runVars, ensVars
<1>1. PICK event \in Event : Mine(event)
  BY DEF Arc, MineQuiet, Register, Judge, Deregister, Event, Quiet
<1>2. /\ head' = head + 1 /\ head < MaxBlock /\ UNCHANGED <<runVars, ensVars>>
      /\ log' = [log EXCEPT ![head + 1] = event]
  BY <1>1 DEF Mine
<1> DEFINE Moved ==
      /\ status' \in [Services -> {"NONE", "LISTED", "DEREGISTERED"}]
      /\ \A s \in Services :
             /\ status[s] # "NONE" => status'[s] # "NONE"
             /\ status[s] = "DEREGISTERED" => status'[s] = "DEREGISTERED"
             /\ event = Reg(s) => status'[s] # "NONE"
<1>3. Moved
  <2>1. CASE MineQuiet \/ \E s \in Services, outcome \in Outcome : Judge(s, outcome)
    <3>0. head + 1 \in Blocks /\ log'[head + 1] = event
      BY <1>2 DEF ListType, Blocks
    <3>1. status' = status /\ log'[head + 1].kind # "registered"
      <4>1. CASE MineQuiet
        BY <4>1, <3>0 DEF MineQuiet, Mine, ListType, Quiet
      <4>2. ASSUME NEW s \in Services, NEW outcome \in Outcome, Judge(s, outcome)
            PROVE  status' = status /\ log'[head + 1].kind # "registered"
        BY <4>2, <3>0 DEF Judge, Mine, ListType
      <4>3. QED
        BY <2>1, <4>1, <4>2
    <3>2. \A s \in Services : event # Reg(s)
      BY <3>0, <3>1 DEF Reg
    <3>3. QED
      BY <3>1, <3>2 DEF ListType
  <2>2. ASSUME NEW s \in Services, Register(s) \/ Deregister(s) PROVE Moved
    <3>1. CASE Register(s)
      <4>1. log'[head + 1] = Reg(s) /\ log'[head + 1] = event
        BY <1>2, <3>1 DEF Register, Mine, Reg, ListType, Blocks
      <4>2. \A t \in Services : Reg(t) = Reg(s) => t = s
        BY DEF Reg
      <4>3. QED
        BY <3>1, <4>1, <4>2 DEF Register, ListType
    <3>2. CASE Deregister(s)
      <4>1. log'[head + 1] = Quiet /\ log'[head + 1] = event
        BY <1>2, <3>2 DEF Deregister, Mine, ListType, Blocks
      <4>2. \A t \in Services : Reg(t) # Quiet
        BY DEF Reg, Quiet
      <4>3. QED
        BY <3>2, <4>1, <4>2 DEF Deregister, ListType
    <3>3. QED
      BY <2>2, <3>1, <3>2
  <2>3. QED
    BY <2>1, <2>2 DEF Arc
<1>4. ListType'
  BY <1>1, <1>2, <1>3 DEF ListType, Blocks
<1>5. \A b \in Blocks : log'[b] = IF b = head + 1 THEN event ELSE log[b]
  BY <1>2 DEF ListType
<1>6. ArcInv'
  BY <1>2, <1>3, <1>5 DEF ArcInv
<1>7. FoundInv' /\ ScoredInv'
  BY <1>2, <1>5 DEF FoundInv, ScoredInv, ListType, Blocks
<1>8. QED
  BY <1>4, <1>6, <1>7

LEMMA ScanList ==
    ASSUME ListInv, Scan
    PROVE  ListInv'
<1> USE ReputationAssumption DEF ListInv, chainVars, ensVars
<1>1. CASE ScanRegistrations
  <2>1. /\ services' = [s \in Services |->
                IF \E b \in Chunk : log[b] = Reg(s) THEN "found" ELSE services[s]]
        /\ phase = "registrations" /\ cursor' = cursor + ChunkBlocks
        /\ UNCHANGED <<head, log, status, phase, headNumber, seen, todo, failed, scoredAt>>
    BY <1>1 DEF ScanRegistrations, Reg
  <2>2. ListType'
    BY <2>1 DEF ListType
  <2>3. ArcInv'
    BY <2>1 DEF ArcInv, ListType, Chunk
  <2>4. FoundInv'
    <3> SUFFICES ASSUME NEW s \in Services, NEW b \in Blocks,
                        b < cursor', b <= headNumber, log[b] = Reg(s)
                 PROVE  services'[s] # "unlisted"
      BY <2>1 DEF FoundInv
    <3>1. CASE b < cursor
      BY <2>1, <3>1 DEF FoundInv
    <3>2. CASE b >= cursor
      <4>1. b \in Chunk
        BY <2>1, <3>2 DEF Chunk, ListType, Blocks
      <4>2. QED
        BY <2>1, <4>1
    <3>3. QED
      BY <3>1, <3>2 DEF ListType, Blocks
  <2>5. ScoredInv'
    BY <2>1 DEF ScoredInv
  <2>6. QED
    BY <2>2, <2>3, <2>4, <2>5
<1>2. CASE StartVerdicts
  <2>1. fromBlock \in Nat
    BY WindowBlocksNat DEF ListType, fromBlock, Blocks
  <2>2. ListType'
    BY <1>2, <2>1 DEF StartVerdicts, ListType
  <2>3. FoundInv'
    BY <1>2 DEF StartVerdicts, FoundInv, ListType, Blocks
  <2>4. ArcInv' /\ ScoredInv'
    BY <1>2 DEF StartVerdicts, ArcInv, ScoredInv
  <2>5. QED
    BY <2>2, <2>3, <2>4
<1>3. CASE ScanVerdicts
  BY <1>3 DEF ScanVerdicts, ListType, ArcInv, FoundInv, ScoredInv
<1>4. CASE Compute
  <2>1. ListType'
    BY <1>4 DEF Compute, ListType, Listed
  <2>2. ArcInv' /\ FoundInv'
    BY <1>4 DEF Compute, ArcInv, FoundInv
  <2>3. ScoredInv'
    BY <1>4 DEF Compute, ScoredInv, Listed
  <2>4. QED
    BY <2>1, <2>2, <2>3
<1>5. QED
  BY <1>1, <1>2, <1>3, <1>4 DEF Scan

LEMMA StepList == ListInv /\ [Next]_vars => ListInv'
<1> SUFFICES ASSUME ListInv, [Next]_vars PROVE ListInv'
  OBVIOUS
<1> USE ReputationAssumption DEF ListInv, chainVars, ensVars
<1>1. CASE Arc
  BY <1>1, ArcList
<1>2. CASE Scan
  BY <1>2, ScanList
<1>3. CASE StartRun
  BY <1>3 DEF StartRun, ListType, ArcInv, FoundInv, ScoredInv, Fresh, Blocks
<1>4. CASE EndRun \/ RunFails
  BY <1>4 DEF EndRun, RunFails, ListType, ArcInv, FoundInv, ScoredInv
<1>5. ASSUME NEW s \in Services, OfService(s) PROVE ListInv'
  <2>1. CASE ReadStatus(s)
    BY <2>1 DEF ReadStatus, ListType, ArcInv, FoundInv, ScoredInv
  <2>2. CASE Publish(s)
    BY <2>2 DEF Publish, ListType, ArcInv, FoundInv, ScoredInv
  <2>3. CASE PublishFails(s)
    BY <2>3 DEF PublishFails, ListType, ArcInv, FoundInv, ScoredInv
  <2>4. QED
    BY <1>5, <2>1, <2>2, <2>3 DEF OfService
<1>6. CASE UNCHANGED vars
  BY <1>6 DEF vars, runVars, ListType, ArcInv, FoundInv, ScoredInv
<1>7. QED
  BY <1>1, <1>2, <1>3, <1>4, <1>5, <1>6 DEF Next

\* A run that ends has scored every service that was listed at its head and
\* still is, called or not, but for the writes that failed.
THEOREM EveryListingGetsItsScore == Spec => []EveryListingIsScored
<1>1. ListInv => EveryListingIsScored
  <2> SUFFICES ASSUME ListInv, phase = "publishing", todo = {},
                      NEW s \in Services \ failed, status[s] = "LISTED",
                      NEW b \in DeployBlock .. headNumber, log[b] = Reg(s)
               PROVE  scoredAt[s] = headNumber
    BY DEF EveryListingIsScored, Reg
  <2>1. b \in Blocks /\ b <= headNumber
    BY ReputationAssumption DEF ListInv, ListType, Blocks
  <2>2. services[s] = "LISTED"
    BY <2>1 DEF ListInv, FoundInv, ArcInv
  <2>3. QED
    BY <2>2 DEF ListInv, ScoredInv
<1>2. QED
  BY <1>1, InitList, StepList, PTL DEF Spec

-----------------------------------------------------------------------------
\* What the scores say.

\* The blocks of the window up to h in which s was judged so.
Judged(s, outcome, h) ==
    {b \in DeployBlock .. h : (h - b) * BlockTime < Window
        /\ log[b] = [kind |-> "verdict", service |-> s, outcome |-> outcome]}

ScoreType ==
    /\ log \in [Blocks -> Event]
    /\ scoredAt \in [Services -> Nat] /\ DOMAIN scores = Services
    /\ \A s \in Services : scoredAt[s] <= head

\* A published score is of blocks that Arc will not write again.
ScoreInv == WindowInv /\ ScoreType /\ ScoresAreOfTheirWindow

\* The floored ratio of two counts is the largest mark that does not overstate
\* the share.
LEMMA RatioIsShare ==
    ASSUME NEW of, NEW all, IsFiniteSet(all), of \subseteq all
    PROVE  Share(of, all, Ratio(Cardinality(of), Cardinality(all)))
<1>1. IsFiniteSet(of)
  BY FS_Subset
<1>2. PICK part \in Nat, whole \in Nat : part = Cardinality(of) /\ whole = Cardinality(all)
  BY <1>1, FS_CardinalityType
<1>3. CASE all = {}
  BY <1>2, <1>3, FS_EmptySet DEF Share, Ratio
<1>4. CASE all # {}
  <2>1. whole # 0 /\ whole \in Nat \ {0}
    BY <1>2, <1>4, FS_EmptySet
  <2>2. part * SCORE_SCALE \in Nat /\ SCORE_SCALE * part = part * SCORE_SCALE
    BY DEF SCORE_SCALE
  <2>3. \A a \in Nat, d \in Nat \ {0} : /\ (a \div d) * d <= a
                                        /\ (a \div d + 1) * d > a
    OBVIOUS
  <2>4. PICK mark : mark = (part * SCORE_SCALE) \div whole
    OBVIOUS
  <2>5. mark * whole <= SCORE_SCALE * part /\ (mark + 1) * whole > SCORE_SCALE * part
    BY <2>1, <2>2, <2>3, <2>4
  <2>6. Ratio(Cardinality(of), Cardinality(all)) = mark
    BY <1>2, <2>1, <2>4 DEF Ratio
  <2>7. QED
    BY <1>2, <1>4, <2>5, <2>6 DEF Share
<1>5. QED
  BY <1>3, <1>4

LEMMA JudgedIsFinite ==
    ASSUME NEW s, NEW outcome, NEW h \in Nat
    PROVE  IsFiniteSet(Judged(s, outcome, h)) /\ Cardinality(Judged(s, outcome, h)) \in Nat
<1>1. IsFiniteSet(DeployBlock .. h)
  BY ReputationAssumption, FS_Interval
<1>2. Judged(s, outcome, h) \subseteq DeployBlock .. h
  BY DEF Judged
<1>3. QED
  BY <1>1, <1>2, FS_Subset, FS_CardinalityType

\* A tally of a finished scan counts blocks: each of the window once.
LEMMA TallyCounts ==
    ASSUME WindowInv, phase = "publishing", NEW s \in Services, NEW outcome
    PROVE  Tally(s, outcome) = Cardinality(Judged(s, outcome, headNumber))
<1>1. PICK f, S, T : /\ f = seen /\ S = {b \in Blocks : Counted(s, outcome, b)}
                     /\ T = {b \in S : b <= headNumber}
  OBVIOUS
<1>2. headNumber \in Nat /\ DeployBlock \in Nat /\ headNumber <= MaxBlock /\ MaxBlock \in Nat
  BY ReputationAssumption DEF WindowInv, RunType, Blocks
<1>3. T = Judged(s, outcome, headNumber)
  BY <1>1, <1>2 DEF Judged, Counted, Recent, Blocks
<1>4. ASSUME NEW b \in Blocks
      PROVE  seen[b] = IF fromBlock <= b /\ b <= headNumber THEN 1 ELSE 0
  BY DEF WindowInv, SeenInv
<1>5. \A b \in T : f[b] = 1
  BY <1>1, <1>4, WindowStarts DEF WindowInv, Counted
<1>6. \A b \in S \ T : f[b] = 0
  BY <1>1, <1>4
<1>7. Total(f, T) = Total(f, S)
  <2>1. T \in SUBSET S
    BY <1>1
  <2>2. QED
    BY <1>6, <2>1, TotalOfSome
<1>8. Total(f, T) = Cardinality(T)
  BY <1>2, <1>3, <1>5, JudgedIsFinite, TotalOfOnes
<1>9. Tally(s, outcome) = Total(f, S)
  BY <1>1 DEF Tally
<1>10. QED
  BY <1>3, <1>7, <1>8, <1>9

LEMMA DisjointCounts ==
    ASSUME NEW S, NEW T, IsFiniteSet(S), IsFiniteSet(T), \A x \in S : x \notin T
    PROVE  IsFiniteSet(S \cup T) /\ Cardinality(S \cup T) = Cardinality(S) + Cardinality(T)
<1>1. /\ IsFiniteSet(S \cup T)
      /\ Cardinality(S \cup T) = Cardinality(S) + Cardinality(T) - Cardinality(S \cap T)
  BY FS_Union
<1>2. S \cap T = {}
  OBVIOUS
<1>3. Cardinality(S \cap T) = 0
  BY <1>2, FS_EmptySet
<1>4. Cardinality(S) \in Nat /\ Cardinality(T) \in Nat
  BY FS_CardinalityType
<1>5. QED
  BY <1>1, <1>3, <1>4

AnsweredIn(s, h) == {b \in InWindow(s, h) : log[b].outcome # "DOWN"}
PassedIn(s, h) == {b \in InWindow(s, h) : log[b].outcome = "PASS"}

\* The window's verdicts are those that passed, failed and found it down.
LEMMA WindowParts ==
    ASSUME log \in [Blocks -> Event], NEW s \in Services, NEW h \in Blocks
    PROVE  LET pass == Cardinality(Judged(s, "PASS", h))
               fail == Cardinality(Judged(s, "FAIL", h))
               down == Cardinality(Judged(s, "DOWN", h))
           IN  /\ IsFiniteSet(InWindow(s, h))
               /\ PassedIn(s, h) \subseteq AnsweredIn(s, h)
               /\ AnsweredIn(s, h) \subseteq InWindow(s, h)
               /\ Cardinality(PassedIn(s, h)) = pass
               /\ Cardinality(AnsweredIn(s, h)) = pass + fail
               /\ Cardinality(InWindow(s, h)) = pass + fail + down
<1>p. PICK all, answered, passed :
          all = InWindow(s, h) /\ answered = AnsweredIn(s, h) /\ passed = PassedIn(s, h)
  OBVIOUS
<1>c. PICK pass, fail, down : /\ pass = Cardinality(Judged(s, "PASS", h))
                              /\ fail = Cardinality(Judged(s, "FAIL", h))
                              /\ down = Cardinality(Judged(s, "DOWN", h))
  OBVIOUS
<1>1. h \in Nat /\ DeployBlock .. h \subseteq Blocks
  BY ReputationAssumption DEF Blocks
<1>2. PICK P, F, D : P = Judged(s, "PASS", h) /\ F = Judged(s, "FAIL", h) /\ D = Judged(s, "DOWN", h)
  OBVIOUS
<1>3. /\ IsFiniteSet(P) /\ IsFiniteSet(F) /\ IsFiniteSet(D)
      /\ pass \in Nat /\ fail \in Nat /\ down \in Nat
      /\ pass = Cardinality(P) /\ fail = Cardinality(F) /\ down = Cardinality(D)
  BY <1>c, <1>1, <1>2, JudgedIsFinite
<1>4. ASSUME NEW b \in DeployBlock .. h
      PROVE  /\ b \in all <=> b \in P \/ b \in F \/ b \in D
             /\ b \in P => log[b].outcome = "PASS"
             /\ b \in F => log[b].outcome = "FAIL"
             /\ b \in D => log[b].outcome = "DOWN"
  <2>1. log[b] \in Event
    BY <1>1
  <2>2. CASE log[b].kind = "verdict" /\ log[b].service = s
    <3>1. log[b] \in [kind : {"verdict"}, service : Services, outcome : Outcome]
      BY <2>1, <2>2 DEF Event
    <3>2. \A outcome : (log[b].outcome = outcome) <=>
              (log[b] = [kind |-> "verdict", service |-> s, outcome |-> outcome])
      BY <2>2, <3>1
    <3>3. log[b].outcome \in {"PASS", "FAIL", "DOWN"}
      BY <3>1 DEF Outcome
    <3>4. QED
      BY <1>p, <1>2, <2>2, <3>2, <3>3 DEF InWindow, Judged
  <2>3. CASE ~(log[b].kind = "verdict" /\ log[b].service = s)
    BY <1>p, <1>2, <2>3 DEF InWindow, Judged
  <2>4. QED
    BY <2>2, <2>3
<1>5. P \subseteq DeployBlock .. h /\ F \subseteq DeployBlock .. h /\ D \subseteq DeployBlock .. h
      /\ all \subseteq DeployBlock .. h
  BY <1>p, <1>2 DEF Judged, InWindow
<1>6. all = (P \cup F) \cup D /\ answered = P \cup F /\ passed = P
      /\ (\A b \in P : b \notin F) /\ (\A b \in P \cup F : b \notin D)
  BY <1>p, <1>4, <1>5 DEF AnsweredIn, PassedIn
<1>7. IsFiniteSet(P \cup F) /\ Cardinality(P \cup F) = pass + fail
  BY <1>3, <1>6, DisjointCounts
<1>8. IsFiniteSet((P \cup F) \cup D) /\ Cardinality((P \cup F) \cup D) = pass + fail + down
  BY <1>3, <1>6, <1>7, DisjointCounts
<1>9. passed \subseteq answered /\ answered \subseteq all
  BY <1>6
<1>10. QED
  BY <1>p, <1>c, <1>3, <1>6, <1>7, <1>8, <1>9

\* What is said of one service.
ScoreOf(s) ==
    LET all == InWindow(s, scoredAt[s])
        answered == {b \in all : log[b].outcome # "DOWN"}
        passed == {b \in all : log[b].outcome = "PASS"}
    IN  /\ Share(passed, answered, scores[s].conformance)
        /\ Share(answered, all, scores[s].availability)

LEMMA PublishScores ==
    ASSUME ScoreInv, NEW s \in Services, Publish(s)
    PROVE  scoredAt'[s] = headNumber /\ ScoreOf(s)'
<1>1. /\ phase = "publishing" /\ log' = log /\ scoredAt'[s] = headNumber
      /\ scores'[s] = aggregateWindow(Tally(s, "PASS"), Tally(s, "FAIL"), Tally(s, "DOWN"))
  BY DEF ScoreInv, ScoreType, Publish, chainVars
<1>2. PICK pass, fail, down : /\ pass = Cardinality(Judged(s, "PASS", headNumber))
                              /\ fail = Cardinality(Judged(s, "FAIL", headNumber))
                              /\ down = Cardinality(Judged(s, "DOWN", headNumber))
  OBVIOUS
<1>3. scores'[s] = aggregateWindow(pass, fail, down)
  BY <1>1, <1>2, TallyCounts DEF ScoreInv
<1>4. scores'[s].conformance = Ratio(pass, pass + fail)
      /\ scores'[s].availability = Ratio(pass + fail, pass + fail + down)
  BY <1>3 DEF aggregateWindow
<1>p. PICK all, answered, passed :
          /\ all = InWindow(s, headNumber) /\ answered = AnsweredIn(s, headNumber)
          /\ passed = PassedIn(s, headNumber)
  OBVIOUS
<1>5. /\ IsFiniteSet(all) /\ passed \subseteq answered /\ answered \subseteq all
      /\ Cardinality(passed) = pass /\ Cardinality(answered) = pass + fail
      /\ Cardinality(all) = pass + fail + down
  <2>1. log \in [Blocks -> Event] /\ headNumber \in Blocks
    BY DEF ScoreInv, ScoreType, WindowInv, RunType
  <2>2. QED
    BY <1>2, <1>p, <2>1, WindowParts
<1>6. IsFiniteSet(answered)
  BY <1>5, FS_Subset
<1>7. Share(passed, answered, Ratio(pass, pass + fail))
      /\ Share(answered, all, Ratio(pass + fail, pass + fail + down))
  <2>1. Share(passed, answered, Ratio(Cardinality(passed), Cardinality(answered)))
    BY <1>5, <1>6, RatioIsShare
  <2>2. Share(answered, all, Ratio(Cardinality(answered), Cardinality(all)))
    BY <1>5, RatioIsShare
  <2>3. QED
    BY <1>5, <2>1, <2>2
<1>8. InWindow(s, scoredAt[s])' = all
  BY <1>1, <1>p DEF InWindow
<1>9. QED
  BY <1>1, <1>p, <1>4, <1>7, <1>8 DEF ScoreOf, Share, AnsweredIn, PassedIn

\* A score stays true while the blocks up to its head do.
LEMMA ScoreStays ==
    ASSUME NEW s \in Services, ScoreOf(s),
           scoredAt'[s] = scoredAt[s], scores'[s] = scores[s],
           \A b \in DeployBlock .. scoredAt[s] : log'[b] = log[b]
    PROVE  ScoreOf(s)'
<1>1. InWindow(s, scoredAt[s])' = InWindow(s, scoredAt[s])
      /\ \A b \in InWindow(s, scoredAt[s]) : log'[b] = log[b]
  BY DEF InWindow
<1>2. QED
  BY <1>1 DEF ScoreOf, Share

LEMMA InitScores == Init => ScoreInv
<1>1. Init => WindowInv
  BY InitWindow
<1>2. Init => ScoreType
  BY ReputationAssumption DEF Init, ScoreType, Blocks, Event, Quiet
<1>3. Init => ScoresAreOfTheirWindow
  BY DEF Init, ScoresAreOfTheirWindow
<1>4. QED
  BY <1>1, <1>2, <1>3 DEF ScoreInv

LEMMA StepScores == ScoreInv /\ [Next]_vars => ScoreInv'
<1> SUFFICES ASSUME ScoreInv, [Next]_vars PROVE ScoreInv'
  OBVIOUS
<1>1. WindowInv'
  BY StepWindow DEF ScoreInv
<1>2. head \in Nat /\ headNumber \in Nat /\ headNumber <= head
  BY ReputationAssumption DEF ScoreInv, WindowInv, RunType, Blocks
<1>3. \A s \in Services : scoredAt[s] # 0 => ScoreOf(s)
  BY DEF ScoreInv, ScoresAreOfTheirWindow, ScoreOf
<1> DEFINE Goal == ScoreType' /\ \A s \in Services : scoredAt'[s] # 0 => ScoreOf(s)'
<1>4. SUFFICES Goal
  BY <1>1 DEF ScoreInv, ScoresAreOfTheirWindow, ScoreOf
<1>5. CASE UNCHANGED <<head, log, scoredAt, scores>>
  <2>1. ScoreType'
    BY <1>5 DEF ScoreInv, ScoreType
  <2>2. QED
    BY <1>3, <1>5, <2>1, ScoreStays
<1>6. CASE Arc
  <2>1. PICK event \in Event : Mine(event)
    BY <1>6 DEF Arc, MineQuiet, Register, Judge, Deregister, Event, Quiet
  <2>2. /\ head' = head + 1 /\ log' = [log EXCEPT ![head + 1] = event]
        /\ UNCHANGED <<scores, scoredAt>>
    BY <2>1 DEF Mine, ensVars
  <2>3. ScoreType'
    <3>1. log' \in [Blocks -> Event] /\ scoredAt' \in [Services -> Nat] /\ DOMAIN scores' = Services
      BY <2>1, <2>2 DEF ScoreInv, ScoreType
    <3>2. ASSUME NEW s \in Services PROVE scoredAt'[s] <= head'
      BY <1>2, <2>2 DEF ScoreInv, ScoreType
    <3>3. QED
      BY <3>1, <3>2 DEF ScoreType
  <2>4. ASSUME NEW s \in Services, NEW b \in DeployBlock .. scoredAt[s]
        PROVE  log'[b] = log[b]
    <3>1. scoredAt[s] \in Nat /\ scoredAt[s] <= head
      BY DEF ScoreInv, ScoreType
    <3>2. b # head + 1
      BY <1>2, <3>1, ReputationAssumption
    <3>3. QED
      BY <2>2, <3>2 DEF ScoreInv, ScoreType
  <2>5. QED
    BY <1>3, <2>2, <2>3, <2>4, ScoreStays
<1>7. ASSUME NEW t \in Services, Publish(t) PROVE Goal
  <2>1. /\ UNCHANGED <<head, log>> /\ scoredAt' = [scoredAt EXCEPT ![t] = headNumber]
        /\ \A s \in Services \ {t} : scores'[s] = scores[s] /\ scoredAt'[s] = scoredAt[s]
        /\ DOMAIN scores' = Services
    BY <1>7 DEF Publish, chainVars, ScoreInv, ScoreType
  <2>2. ScoreType'
    BY <1>2, <2>1 DEF ScoreInv, ScoreType
  <2>3. ASSUME NEW s \in Services, scoredAt'[s] # 0 PROVE ScoreOf(s)'
    <3>1. CASE s = t
      BY <1>7, <3>1, PublishScores
    <3>2. CASE s # t
      BY <1>3, <2>1, <2>3, <3>2, ScoreStays
    <3>3. QED
      BY <3>1, <3>2
  <2>4. QED
    BY <2>2, <2>3
<1> HIDE DEF Goal
<1>8. QED
  BY <1>5, <1>6, <1>7
     DEF Next, StartRun, Scan, ScanRegistrations, StartVerdicts, ScanVerdicts, Compute,
         EndRun, RunFails, OfService, ReadStatus, PublishFails, vars, chainVars, ensVars

\* Every score a run published is, for good, the floored share of what the log
\* says of the window that ended at the run's head, whatever the chunks were and
\* however far Arc went on.
THEOREM ScoresAreOfTheWindow == Spec => []ScoresAreOfTheirWindow
<1>1. ScoreInv => ScoresAreOfTheirWindow
  BY DEF ScoreInv
<1>2. QED
  BY <1>1, InitScores, StepScores, PTL DEF Spec

-----------------------------------------------------------------------------
(***************************************************************************)
(* Recursion over what has a height.                                       *)
(***************************************************************************)
\* Any of some numbers, one is the least.
LEMMA SomeNumberIsLeast ==
    ASSUME NEW T \in SUBSET Nat, T # {}
    PROVE  \E i \in T : \A j \in T : i <= j
<1>1. \A i \in Nat, j \in Nat : j < i => <<j, i>> \in OpToRel(<, Nat)
  BY DEF OpToRel
<1>2. \E i \in T : \A j \in T : ~ (<<j, i>> \in OpToRel(<, Nat))
  BY NatLessThanWellFounded, WFMin
<1>3. \E i \in T : \A j \in T : ~ (j < i)
  BY <1>1, <1>2, Zenon
<1>4. QED
  BY <1>3

\* What passes from everything lower to everything is everywhere.
LEMMA ByHeight ==
    ASSUME NEW S, NEW height \in [S -> Nat], NEW T,
           \A x \in S : (\A y \in S : height[y] < height[x] => y \in T) => x \in T
    PROVE  S \subseteq T
<1> SUFFICES ASSUME S \ T # {} PROVE FALSE
  OBVIOUS
<1> DEFINE heights == {height[x] : x \in S \ T}
<1>1. PICK n \in heights : \A m \in heights : n <= m
  <2>1. heights \in SUBSET Nat /\ heights # {}
    OBVIOUS
  <2> HIDE DEF heights
  <2>2. QED
    BY <2>1, SomeNumberIsLeast
<1>2. PICK x \in S \ T : n = height[x]
  BY <1>1
<1>3. \A y \in S : height[y] < height[x] => y \in T
  <2>1. SUFFICES ASSUME NEW y \in S, height[y] < height[x], y \notin T PROVE FALSE
    OBVIOUS
  <2>2. height[y] \in heights
    BY <2>1
  <2>3. height[x] <= height[y]
    BY <1>1, <1>2, <2>2
  <2>4. QED
    BY <2>1, <2>3
<1>4. QED
  BY <1>2, <1>3

\* An equation on the functions from D to R whose right side at an argument
\* looks only at lower ones.
LooksLower(F, D, R, height) ==
    /\ R # {} /\ height \in [D -> Nat] /\ F \in [[D -> R] -> [D -> R]]
    /\ \A g \in [D -> R], h \in [D -> R], x \in D :
           (\A y \in D : height[y] < height[x] => g[y] = h[y]) => F[g][x] = F[h][x]

\* It has a solution: approximations that satisfy it up to a height exist, and
\* agree up to it.
LEMMA RecursionHasASolution ==
    ASSUME NEW F, NEW D, NEW R, NEW height, LooksLower(F, D, R, height)
    PROVE  \E f \in [D -> R] : f = F[f]
<1>0. /\ R # {} /\ height \in [D -> Nat] /\ F \in [[D -> R] -> [D -> R]]
      /\ \A g \in [D -> R], h \in [D -> R], x \in D :
             (\A y \in D : height[y] < height[x] => g[y] = h[y]) => F[g][x] = F[h][x]
  BY DEF LooksLower
<1> USE <1>0
<1> DEFINE Upto(g, n) == \A x \in D : height[x] < n => g[x] = F[g][x]
           approximable == {n \in Nat : \E g \in [D -> R] : Upto(g, n)}
<1>1. \A n \in Nat : n \in approximable
  <2>1. 0 \in approximable
    <3>1. PICK r : r \in R
      OBVIOUS
    <3>2. [x \in D |-> r] \in [D -> R] /\ Upto([x \in D |-> r], 0)
      BY <3>1
    <3>3. QED
      BY <3>2
  <2>2. ASSUME NEW n \in approximable PROVE n + 1 \in approximable
    <3>1. PICK g \in [D -> R] : Upto(g, n)
      BY <2>2
    <3>2. F[g] \in [D -> R]
      OBVIOUS
    <3>3. ASSUME NEW x \in D, height[x] < n + 1 PROVE F[g][x] = F[F[g]][x]
      <4>1. \A y \in D : height[y] < height[x] => height[y] < n
        BY <2>2, <3>3
      <4>2. \A y \in D : height[y] < height[x] => g[y] = F[g][y]
        BY <3>1, <4>1
      <4>3. QED
        BY <3>2, <4>2
    <3>4. Upto(F[g], n + 1)
      BY <3>3
    <3>5. QED
      BY <2>2, <3>2, <3>4
  <2>3. QED
    <3> DEFINE id == [n \in Nat |-> n]
    <3> HIDE DEF approximable
    <3>1. id \in [Nat -> Nat]
      OBVIOUS
    <3>2. ASSUME NEW n \in Nat, \A m \in Nat : id[m] < id[n] => m \in approximable
          PROVE  n \in approximable
      <4>1. CASE n = 0
        BY <2>1, <4>1
      <4>2. CASE n # 0
        <5>1. n - 1 \in Nat /\ id[n - 1] < id[n] /\ (n - 1) + 1 = n
          BY <4>2
        <5>2. n - 1 \in approximable
          BY <3>2, <5>1
        <5>3. QED
          BY <2>2, <5>1, <5>2
      <4>3. QED
        BY <4>1, <4>2
    <3> HIDE DEF id
    <3>3. Nat \subseteq approximable
      BY <3>1, <3>2, ByHeight
    <3>4. QED
      BY <3>3
<1>2. ASSUME NEW g \in [D -> R], NEW h \in [D -> R], NEW n \in Nat, Upto(g, n), Upto(h, n)
      PROVE  \A x \in D : height[x] < n => g[x] = h[x]
  <2> DEFINE T == {x \in D : height[x] < n => g[x] = h[x]}
  <2>1. ASSUME NEW x \in D, \A y \in D : height[y] < height[x] => y \in T
        PROVE  x \in T
    <3>1. SUFFICES ASSUME height[x] < n PROVE g[x] = h[x]
      OBVIOUS
    <3>2. \A y \in D : height[y] < height[x] => height[y] < n
      BY <3>1
    <3>3. \A y \in D : height[y] < height[x] => g[y] = h[y]
      BY <2>1, <3>2
    <3>4. F[g][x] = F[h][x]
      BY <3>3
    <3>5. QED
      BY <1>2, <3>1, <3>4
  <2> HIDE DEF T
  <2>2. D \subseteq T
    BY <2>1, ByHeight
  <2>3. QED
    BY <2>2 DEF T
<1> DEFINE Approximation(x) == CHOOSE g \in [D -> R] : Upto(g, height[x] + 1)
           f == [x \in D |-> Approximation(x)[x]]
<1>3. ASSUME NEW x \in D
      PROVE  Approximation(x) \in [D -> R] /\ Upto(Approximation(x), height[x] + 1)
  <2>1. height[x] + 1 \in Nat
    OBVIOUS
  <2>2. \E g \in [D -> R] : Upto(g, height[x] + 1)
    BY <1>1, <2>1
  <2> HIDE DEF Upto
  <2>3. QED
    BY <2>2
<1>4. f \in [D -> R]
  <2> HIDE DEF Approximation
  <2>1. \A x \in D : Approximation(x)[x] \in R
    BY <1>3
  <2>2. QED
    BY <2>1
<1>5. ASSUME NEW x \in D PROVE f[x] = F[f][x]
  <2> DEFINE g == Approximation(x)
  <2>1. g \in [D -> R] /\ Upto(g, height[x] + 1) /\ f[x] = g[x]
    BY <1>3
  <2>2. ASSUME NEW y \in D, height[y] < height[x] PROVE f[y] = g[y]
    <3> DEFINE h == Approximation(y)
    <3>1. h \in [D -> R] /\ Upto(h, height[y] + 1) /\ f[y] = h[y]
      BY <1>3
    <3>2. height[y] + 1 \in Nat /\ height[y] < height[y] + 1
          /\ \A z \in D : height[z] < height[y] + 1 => height[z] < height[x] + 1
      BY <2>2
    <3>3. Upto(g, height[y] + 1)
      BY <2>1, <3>2
    <3> HIDE DEF g, h, Upto, f
    <3>4. g[y] = h[y]
      BY <1>2, <2>1, <3>1, <3>2, <3>3
    <3>5. QED
      BY <3>1, <3>4
  <2>3. g[x] = F[g][x]
    BY <2>1
  <2> HIDE DEF g, f
  <2>4. F[g][x] = F[f][x]
    BY <1>4, <2>1, <2>2
  <2>5. QED
    BY <2>1, <2>3, <2>4
<1>6. f = F[f]
  <2> HIDE DEF f
  <2>1. F[f] \in [D -> R]
    BY <1>4
  <2>2. QED
    BY <1>4, <1>5, <2>1
<1>7. QED
  BY <1>4, <1>6

-----------------------------------------------------------------------------
(***************************************************************************)
(* The schema validator: it decides conformance, and what it reports is of *)
(* the value and not of the order its members were written in.             *)
(***************************************************************************)
LEMMA ListedElements ==
    ASSUME NEW E, NEW q \in Seq(E)
    PROVE  /\ Len(q) \in Nat /\ DOMAIN q = 1 .. Len(q)
           /\ \A i \in DOMAIN q : q[i] \in E
           /\ Range(q) \subseteq E
<1>1. Len(q) \in Nat /\ DOMAIN q = 1 .. Len(q)
  BY LenProperties
<1>2. \A i \in 1 .. Len(q) : q[i] \in E
  BY ElementOfSeq, Zenon
<1>3. \A i \in DOMAIN q : q[i] \in E
  BY <1>1, <1>2
<1>4. Range(q) \subseteq E
  BY <1>3 DEF Range
<1>5. QED
  BY <1>1, <1>3, <1>4

\* What is inside a value is a value, and lower.
LEMMA InsideAValue ==
    ASSUME NEW v \in Values
    PROVE  /\ v.is = "array" =>
                /\ v.items \in Seq(Values)
                /\ Len(v.items) \in Nat /\ DOMAIN v.items = 1 .. Len(v.items)
                /\ \A i \in DOMAIN v.items :
                       v.items[i] \in Values /\ ValueHeight[v.items[i]] < ValueHeight[v]
           /\ v.is = "object" =>
                /\ Names(v) \subseteq MemberNames
                /\ \A n \in Names(v) :
                       Member(v, n) \in Values /\ ValueHeight[Member(v, n)] < ValueHeight[v]
                /\ \A m \in Range(v.members) : m.name \in Names(v) /\ Member(v, m.name) = m.value
<1>1. /\ \A w \in Parts(v) : w \in Values /\ ValueHeight[w] < ValueHeight[v]
      /\ v.is = "array" => v.items \in Seq(Values)
      /\ v.is = "object" =>
           /\ v.members \in Seq([name : MemberNames, value : Values])
           /\ \A m, n \in Range(v.members) : m.name = n.name => m = n
  BY TreesAssumption
<1>2. ASSUME v.is = "array"
      PROVE  /\ v.items \in Seq(Values)
             /\ Len(v.items) \in Nat /\ DOMAIN v.items = 1 .. Len(v.items)
             /\ \A i \in DOMAIN v.items :
                    v.items[i] \in Values /\ ValueHeight[v.items[i]] < ValueHeight[v]
  <2>1. \A i \in DOMAIN v.items : v.items[i] \in Parts(v)
    BY <1>2 DEF Parts, Range
  <2>2. Len(v.items) \in Nat /\ DOMAIN v.items = 1 .. Len(v.items)
    BY <1>1, <1>2, LenProperties
  <2>3. QED
    BY <1>1, <1>2, <2>1, <2>2
<1>3. ASSUME v.is = "object"
      PROVE  /\ Names(v) \subseteq MemberNames
             /\ \A n \in Names(v) :
                    Member(v, n) \in Values /\ ValueHeight[Member(v, n)] < ValueHeight[v]
             /\ \A m \in Range(v.members) : m.name \in Names(v) /\ Member(v, m.name) = m.value
  <2>1. \A m \in Range(v.members) : m.name \in MemberNames /\ m.value \in Parts(v)
    <3>1. Range(v.members) \subseteq [name : MemberNames, value : Values]
      BY <1>1, <1>3, ListedElements, Zenon
    <3>2. QED
      BY <1>3, <3>1 DEF Parts
  <2>2. ASSUME NEW m \in Range(v.members)
        PROVE  m.name \in Names(v) /\ Member(v, m.name) = m.value
    <3>1. \E o \in Range(v.members) : o.name = m.name
      OBVIOUS
    <3>2. (CHOOSE o \in Range(v.members) : o.name = m.name) = m
      BY <1>1, <1>3, <3>1
    <3>3. QED
      BY <3>2 DEF Names, Member
  <2>3. \A n \in Names(v) : \E m \in Range(v.members) : m.name = n
    BY DEF Names
  <2>4. QED
    BY <1>1, <2>1, <2>2, <2>3 DEF Names
<1>4. QED
  BY <1>2, <1>3

\* What is inside a schema is a schema, and lower.
LEMMA InsideASchema ==
    ASSUME NEW s \in Schemas
    PROVE  /\ "items" \in DOMAIN s =>
                s.items \in Schemas /\ SchemaHeight[s.items] < SchemaHeight[s]
           /\ \A name \in Declared(s) :
                /\ name \in MemberNames
                /\ s.properties[name] \in Schemas /\ SchemaHeight[s.properties[name]] < SchemaHeight[s]
           /\ "additionalProperties" \in DOMAIN s /\ s.additionalProperties.is = "schema" =>
                /\ s.additionalProperties.schema \in Schemas
                /\ SchemaHeight[s.additionalProperties.schema] < SchemaHeight[s]
           /\ "required" \in DOMAIN s =>
                /\ Len(s.required) \in Nat /\ DOMAIN s.required = 1 .. Len(s.required)
                /\ \A i \in DOMAIN s.required : s.required[i] \in MemberNames
           /\ "oneOf" \in DOMAIN s =>
                /\ Len(s.oneOf) \in Nat /\ DOMAIN s.oneOf = 1 .. Len(s.oneOf)
                /\ \A i \in DOMAIN s.oneOf :
                       s.oneOf[i] \in Schemas /\ SchemaHeight[s.oneOf[i]] < SchemaHeight[s]
<1>1. /\ \A t \in Inner(s) : t \in Schemas /\ SchemaHeight[t] < SchemaHeight[s]
      /\ "properties" \in DOMAIN s => DOMAIN s.properties \subseteq MemberNames
      /\ "required" \in DOMAIN s => s.required \in Seq(MemberNames)
      /\ "oneOf" \in DOMAIN s => s.oneOf \in Seq(Schemas)
  BY TreesAssumption
<1>2. "items" \in DOMAIN s => s.items \in Inner(s)
  BY DEF Inner
<1>3. \A name \in Declared(s) : name \in MemberNames /\ s.properties[name] \in Inner(s)
  BY <1>1 DEF Inner, Declared, Range
<1>4. "additionalProperties" \in DOMAIN s /\ s.additionalProperties.is = "schema" =>
          s.additionalProperties.schema \in Inner(s)
  BY DEF Inner
<1>5. "oneOf" \in DOMAIN s => \A i \in DOMAIN s.oneOf : s.oneOf[i] \in Inner(s)
  BY DEF Inner, Range
<1>6. "required" \in DOMAIN s => /\ Len(s.required) \in Nat /\ DOMAIN s.required = 1 .. Len(s.required)
                                 /\ \A i \in DOMAIN s.required : s.required[i] \in MemberNames
  BY <1>1, LenProperties, ElementOfSeq
<1>7. "oneOf" \in DOMAIN s => Len(s.oneOf) \in Nat /\ DOMAIN s.oneOf = 1 .. Len(s.oneOf)
  BY <1>1, LenProperties
<1>8. QED
  BY <1>1, <1>2, <1>3, <1>4, <1>5, <1>6, <1>7

\* deepEqual is the function its definition describes.
LEMMA DeepEqualUnfolds ==
    /\ DeepEqual \in [Values \X Values -> BOOLEAN]
    /\ \A a \in Values, b \in Values : DeepEqual[<<a, b>>] = EqualGiven(DeepEqual, a, b)
<1> DEFINE D == Values \X Values
           height == [p \in D |-> ValueHeight[p[1]]]
           F == [g \in [D -> BOOLEAN] |-> [p \in D |-> EqualGiven(g, p[1], p[2])]]
           Solution(g) == g = [p \in D |-> EqualGiven(g, p[1], p[2])]
<1>1. height \in [D -> Nat]
  BY TreesAssumption
<1>2. F \in [[D -> BOOLEAN] -> [D -> BOOLEAN]]
  <2>1. \A g \in [D -> BOOLEAN], p \in D : EqualGiven(g, p[1], p[2]) \in BOOLEAN
    BY DEF EqualGiven
  <2>2. QED
    BY <2>1
<1>3. ASSUME NEW g \in [D -> BOOLEAN], NEW h \in [D -> BOOLEAN], NEW p \in D,
             \A q \in D : height[q] < height[p] => g[q] = h[q]
      PROVE  F[g][p] = F[h][p]
  <2>1. PICK a \in Values, b \in Values : p = <<a, b>>
    OBVIOUS
  <2>2. \A x \in Values, y \in Values : ValueHeight[x] < ValueHeight[a] => g[<<x, y>>] = h[<<x, y>>]
    BY <1>3, <2>1
  <2>3. ASSUME a.is = "array", b.is = "array", Len(a.items) = Len(b.items)
        PROVE  \A i \in DOMAIN a.items : g[<<a.items[i], b.items[i]>>] = h[<<a.items[i], b.items[i]>>]
    <3>1. DOMAIN a.items = DOMAIN b.items
      BY <2>3, InsideAValue
    <3>2. QED
      BY <2>2, <2>3, <3>1, InsideAValue
  <2>4. ASSUME a.is = "object", b.is = "object", Names(a) = Names(b)
        PROVE  \A n \in Names(a) : g[<<Member(a, n), Member(b, n)>>] = h[<<Member(a, n), Member(b, n)>>]
    BY <2>2, <2>4, InsideAValue
  <2>5. EqualGiven(g, a, b) = EqualGiven(h, a, b)
    BY <2>3, <2>4 DEF EqualGiven
  <2>6. QED
    BY <2>1, <2>5
<1>4. \E g \in [D -> BOOLEAN] : g = F[g]
  <2> DEFINE R == BOOLEAN
  <2>1. R # {} /\ F \in [[D -> R] -> [D -> R]]
    BY <1>2
  <2>2. \A g \in [D -> R], h \in [D -> R], p \in D :
            (\A q \in D : height[q] < height[p] => g[q] = h[q]) => F[g][p] = F[h][p]
    BY <1>3
  <2>3. LooksLower(F, D, R, height)
    <3> HIDE DEF D, height, F, R
    <3>1. QED
      BY <1>1, <2>1, <2>2 DEF LooksLower
  <2> HIDE DEF D, height, F
  <2>4. \E g \in [D -> R] : g = F[g]
    BY <2>3, RecursionHasASolution
  <2>5. QED
    BY <2>4 DEF R
<1>5. \E g : Solution(g)
  BY <1>4
<1>6. Solution(CHOOSE g : Solution(g))
  <2> HIDE DEF Solution
  <2>1. QED
    BY <1>5, Zenon
<1>7. DeepEqual = CHOOSE g : Solution(g)
  BY DEF DeepEqual
<1>8. Solution(DeepEqual)
  <2> HIDE DEF Solution
  <2>1. QED
    BY <1>6, <1>7, Zenon
<1>9. QED
  <2>1. \A p \in D : EqualGiven(DeepEqual, p[1], p[2]) \in BOOLEAN
    BY DEF EqualGiven
  <2>2. DeepEqual = [p \in D |-> EqualGiven(DeepEqual, p[1], p[2])]
    BY <1>8
  <2> HIDE DEF D
  <2>3. DeepEqual \in [D -> BOOLEAN]
    BY <2>1, <2>2
  <2>4. \A p \in D : DeepEqual[p] = EqualGiven(DeepEqual, p[1], p[2])
    BY <2>2
  <2> USE DEF D
  <2>5. QED
    BY <2>3, <2>4

\* Conformance is decided by what the schemas inside say.
LEMMA ConformanceLooksLower ==
    ASSUME NEW g \in [Schemas \X Values -> BOOLEAN], NEW h \in [Schemas \X Values -> BOOLEAN],
           NEW s \in Schemas, NEW v \in Values,
           \A t \in Schemas, w \in Values : SchemaHeight[t] < SchemaHeight[s] => g[<<t, w>>] = h[<<t, w>>]
    PROVE  ConformsGiven(g, s, v) = ConformsGiven(h, s, v)
<1>1. ASSUME v.is = "array", "items" \in DOMAIN s
      PROVE  \A e \in Range(v.items) : g[<<s.items, e>>] = h[<<s.items, e>>]
  BY <1>1, InsideAValue, InsideASchema DEF Range
<1>2. ASSUME v.is = "object", NEW m \in Range(v.members)
      PROVE  /\ m.name \in Declared(s) =>
                  g[<<s.properties[m.name], m.value>>] = h[<<s.properties[m.name], m.value>>]
             /\ "additionalProperties" \in DOMAIN s /\ s.additionalProperties.is = "schema" =>
                  g[<<s.additionalProperties.schema, m.value>>]
                    = h[<<s.additionalProperties.schema, m.value>>]
  <2>1. m.value \in Values
    BY <1>2, InsideAValue
  <2>2. QED
    BY <2>1, InsideASchema
<1>3. ASSUME "oneOf" \in DOMAIN s
      PROVE  \A j \in DOMAIN s.oneOf : g[<<s.oneOf[j], v>>] = h[<<s.oneOf[j], v>>]
  BY <1>3, InsideASchema
<1>4. QED
  BY <1>1, <1>2, <1>3 DEF ConformsGiven

LEMMA ConformsUnfolds ==
    /\ Conforms \in [Schemas \X Values -> BOOLEAN]
    /\ \A s \in Schemas, v \in Values : Conforms[<<s, v>>] = ConformsGiven(Conforms, s, v)
<1> DEFINE D == Schemas \X Values
           R == BOOLEAN
           height == [q \in D |-> SchemaHeight[q[1]]]
           F == [g \in [D -> R] |-> [q \in D |-> ConformsGiven(g, q[1], q[2])]]
           Solution(g) == g = [q \in D |-> ConformsGiven(g, q[1], q[2])]
<1>1. R # {} /\ height \in [D -> Nat]
  BY TreesAssumption
<1>2. F \in [[D -> R] -> [D -> R]]
  <2>1. \A g \in [D -> R], q \in D : ConformsGiven(g, q[1], q[2]) \in R
    BY DEF ConformsGiven
  <2> HIDE DEF D, R
  <2>2. QED
    BY <2>1
<1>3. ASSUME NEW g \in [D -> R], NEW h \in [D -> R], NEW q \in D,
             \A p \in D : height[p] < height[q] => g[p] = h[p]
      PROVE  F[g][q] = F[h][q]
  <2>1. PICK s \in Schemas, v \in Values : q = <<s, v>>
    OBVIOUS
  <2>2. \A t \in Schemas, w \in Values : SchemaHeight[t] < SchemaHeight[s] => g[<<t, w>>] = h[<<t, w>>]
    BY <1>3, <2>1
  <2>3. ConformsGiven(g, s, v) = ConformsGiven(h, s, v)
    BY <2>2, ConformanceLooksLower
  <2>4. QED
    BY <2>1, <2>3
<1>4. \E g \in [D -> R] : g = F[g]
  <2>1. LooksLower(F, D, R, height)
    <3> HIDE DEF D, height, F, R
    <3>1. QED
      BY <1>1, <1>2, <1>3 DEF LooksLower
  <2> HIDE DEF D, height, F, R
  <2>2. QED
    BY <2>1, RecursionHasASolution
<1>5. \E g : Solution(g)
  BY <1>4
<1>6. Solution(CHOOSE g : Solution(g))
  <2> HIDE DEF Solution
  <2>1. QED
    BY <1>5, Zenon
<1>7. Conforms = CHOOSE g : Solution(g)
  BY DEF Conforms
<1>8. Solution(Conforms)
  <2> HIDE DEF Solution
  <2>1. QED
    BY <1>6, <1>7, Zenon
<1>9. QED
  <2>1. \A q \in D : ConformsGiven(Conforms, q[1], q[2]) \in BOOLEAN
    BY DEF ConformsGiven
  <2>2. Conforms = [q \in D |-> ConformsGiven(Conforms, q[1], q[2])]
    BY <1>8
  <2> HIDE DEF D
  <2>3. Conforms \in [D -> BOOLEAN]
    BY <2>1, <2>2
  <2>4. \A q \in D : Conforms[q] = ConformsGiven(Conforms, q[1], q[2])
    BY <2>2
  <2> USE DEF D
  <2>5. QED
    BY <2>3, <2>4

-----------------------------------------------------------------------------
\* A failure is none, or at a place.
Failures == {Conforming} \cup {FailsAt(pointer) : pointer \in Seq(MemberNames \cup Nat)}

LEMMA FailureHere ==
    Conforming \in Failures /\ FailsAt(<<>>) \in Failures /\ FailsAt(<<>>) # Conforming
<1>1. <<>> \in Seq(MemberNames \cup Nat)
  OBVIOUS
<1>2. QED
  BY <1>1 DEF Failures, FailsAt, Conforming

LEMMA FailuresBelow ==
    ASSUME NEW failure \in Failures, NEW step \in MemberNames \cup Nat
    PROVE  /\ Below(step, failure) \in Failures
           /\ Below(step, failure) = Conforming <=> failure = Conforming
           /\ FailsAt(<<step>>) \in Failures /\ FailsAt(<<step>>) # Conforming
<1> DEFINE E == MemberNames \cup Nat
<1>1. <<step>> \in Seq(E)
  OBVIOUS
<1>2. FailsAt(<<step>>) \in Failures
  BY <1>1 DEF Failures
<1>3. \A pointer : FailsAt(pointer) # Conforming
  BY DEF FailsAt, Conforming
<1>4. ASSUME failure # Conforming
      PROVE  Below(step, failure) \in Failures /\ Below(step, failure) # Conforming
  <2>1. PICK pointer \in Seq(E) : failure = FailsAt(pointer)
    BY <1>4 DEF Failures
  <2>2. failure[1] = pointer
    BY <2>1 DEF FailsAt
  <2> HIDE DEF E
  <2>3. <<step>> \o pointer \in Seq(E)
    BY <1>1, <2>1, ConcatProperties
  <2>4. Below(step, failure) = FailsAt(<<step>> \o pointer)
    BY <1>4, <2>2 DEF Below
  <2> USE DEF E
  <2>5. QED
    BY <1>3, <2>3, <2>4 DEF Failures
<1>5. failure = Conforming => Below(step, failure) = Conforming
  BY DEF Below
<1>6. QED
  BY <1>1, <1>2, <1>3, <1>4, <1>5, Zenon

\* The first of some failures is one of them, and there is none when none fails.
LEMMA TheFirstFails ==
    ASSUME NEW n \in Nat, NEW failures, DOMAIN failures = 1 .. n,
           \A i \in 1 .. n : failures[i] \in Failures
    PROVE  /\ FirstOf(failures) \in Failures
           /\ FirstOf(failures) = Conforming <=> \A i \in 1 .. n : failures[i] = Conforming
<1> DEFINE failing == {i \in DOMAIN failures : failures[i] # Conforming}
<1>1. CASE failing = {}
  <2>1. FirstOf(failures) = Conforming
    BY <1>1 DEF FirstOf
  <2>2. QED
    BY <1>1, <2>1 DEF Failures
<1>2. CASE failing # {}
  <2>1. failing \in SUBSET Nat
    OBVIOUS
  <2> DEFINE first == CHOOSE i \in failing : \A j \in failing : i <= j
  <2>2. first \in failing
    <3> HIDE DEF failing
    <3>1. \E i \in failing : \A j \in failing : i <= j
      BY <1>2, <2>1, SomeNumberIsLeast
    <3>2. QED
      BY <3>1
  <2>3. FirstOf(failures) = failures[first]
    BY <1>2 DEF FirstOf
  <2> HIDE DEF first
  <2>4. QED
    BY <2>2, <2>3
<1>3. QED
  BY <1>1, <1>2

LEMMA TheFirstByNameFails ==
    ASSUME NEW failures, DOMAIN failures \subseteq MemberNames,
           \A name \in DOMAIN failures : failures[name] \in Failures
    PROVE  /\ FirstByName(NamesInOrder, failures) \in Failures
           /\ FirstByName(NamesInOrder, failures) = Conforming
                <=> \A name \in DOMAIN failures : failures[name] = Conforming
<1> DEFINE n == Len(NamesInOrder)
           at == [i \in DOMAIN NamesInOrder |->
                    IF NamesInOrder[i] \in DOMAIN failures
                      THEN Below(NamesInOrder[i], failures[NamesInOrder[i]]) ELSE Conforming]
<1>1. /\ n \in Nat /\ DOMAIN NamesInOrder = 1 .. n
      /\ \A i \in 1 .. n : NamesInOrder[i] \in MemberNames
      /\ \A name \in MemberNames : \E i \in 1 .. n : NamesInOrder[i] = name
  <2>1. NamesInOrder \in Seq(MemberNames)
    BY TreesAssumption
  <2>2. n \in Nat /\ DOMAIN NamesInOrder = 1 .. n
    BY <2>1, LenProperties
  <2>3. QED
    BY <2>2 DEF MemberNames, Range
<1>2. DOMAIN at = 1 .. n
  BY <1>1
<1>3. ASSUME NEW i \in 1 .. n
      PROVE  /\ at[i] \in Failures
             /\ at[i] = Conforming <=> (NamesInOrder[i] \in DOMAIN failures =>
                                          failures[NamesInOrder[i]] = Conforming)
  <2>1. CASE NamesInOrder[i] \in DOMAIN failures
    <3>1. at[i] = Below(NamesInOrder[i], failures[NamesInOrder[i]])
      BY <1>1, <2>1
    <3>2. NamesInOrder[i] \in MemberNames \cup Nat
      BY <1>1
    <3>3. failures[NamesInOrder[i]] \in Failures
      BY <2>1
    <3> HIDE DEF at
    <3>4. /\ Below(NamesInOrder[i], failures[NamesInOrder[i]]) \in Failures
          /\ Below(NamesInOrder[i], failures[NamesInOrder[i]]) = Conforming
               <=> failures[NamesInOrder[i]] = Conforming
      BY <3>2, <3>3, FailuresBelow, Zenon
    <3>5. QED
      BY <2>1, <3>1, <3>4
  <2>2. CASE NamesInOrder[i] \notin DOMAIN failures
    BY <1>1, <2>2 DEF Failures
  <2>3. QED
    BY <2>1, <2>2
<1>4. FirstByName(NamesInOrder, failures) = FirstOf(at)
  BY DEF FirstByName
<1> HIDE DEF at, n
<1>5. /\ FirstOf(at) \in Failures
      /\ FirstOf(at) = Conforming <=> \A i \in 1 .. n : at[i] = Conforming
  BY <1>1, <1>2, <1>3, TheFirstFails
<1>6. (\A i \in 1 .. n : at[i] = Conforming)
        <=> \A name \in DOMAIN failures : failures[name] = Conforming
  BY <1>1, <1>3
<1>7. QED
  BY <1>4, <1>5, <1>6

-----------------------------------------------------------------------------
\* What each keyword reports, given what the validator says of the schemas inside.
Judges(validate) == validate \in [Schemas \X Values -> Failures]

LEMMA ItemsAreReported ==
    ASSUME NEW validate, Judges(validate), NEW s \in Schemas, NEW v \in Values
    PROVE  /\ ItemsFailure(validate, s, v) \in Failures
           /\ ItemsFailure(validate, s, v) = Conforming
                <=> (v.is = "array" /\ "items" \in DOMAIN s =>
                       \A e \in Range(v.items) : validate[<<s.items, e>>] = Conforming)
<1>1. CASE ~(v.is = "array" /\ "items" \in DOMAIN s)
  BY <1>1 DEF ItemsFailure, Failures
<1>2. CASE v.is = "array" /\ "items" \in DOMAIN s
  <2> DEFINE at == [i \in DOMAIN v.items |-> Below(i, validate[<<s.items, v.items[i]>>])]
             n == Len(v.items)
  <2>1. n \in Nat /\ DOMAIN v.items = 1 .. n /\ \A i \in 1 .. n : v.items[i] \in Values
    BY <1>2, InsideAValue
  <2>2. s.items \in Schemas
    BY <1>2, InsideASchema
  <2>3. ASSUME NEW i \in 1 .. n
        PROVE  /\ at[i] \in Failures
               /\ at[i] = Conforming <=> validate[<<s.items, v.items[i]>>] = Conforming
    <3>1. at[i] = Below(i, validate[<<s.items, v.items[i]>>])
      BY <2>1
    <3>2. validate[<<s.items, v.items[i]>>] \in Failures
      BY <2>1, <2>2 DEF Judges
    <3>3. i \in MemberNames \cup Nat
      OBVIOUS
    <3> HIDE DEF at
    <3>4. /\ Below(i, validate[<<s.items, v.items[i]>>]) \in Failures
          /\ Below(i, validate[<<s.items, v.items[i]>>]) = Conforming
               <=> validate[<<s.items, v.items[i]>>] = Conforming
      BY <3>2, <3>3, FailuresBelow, Zenon
    <3>5. QED
      BY <3>1, <3>4
  <2>4. ItemsFailure(validate, s, v) = FirstOf(at) /\ DOMAIN at = 1 .. n
    BY <1>2, <2>1 DEF ItemsFailure
  <2> HIDE DEF at, n
  <2>5. /\ FirstOf(at) \in Failures
        /\ FirstOf(at) = Conforming <=> \A i \in 1 .. n : at[i] = Conforming
    BY <2>1, <2>3, <2>4, TheFirstFails
  <2>6. QED
    BY <1>2, <2>1, <2>3, <2>4, <2>5 DEF Range
<1>3. QED
  BY <1>1, <1>2

LEMMA RequiredIsReported ==
    ASSUME NEW s \in Schemas, NEW v \in Values
    PROVE  /\ RequiredFailure(s, v) \in Failures
           /\ RequiredFailure(s, v) = Conforming
                <=> (v.is = "object" /\ "required" \in DOMAIN s => Range(s.required) \subseteq Names(v))
<1>1. CASE ~(v.is = "object" /\ "required" \in DOMAIN s)
  BY <1>1 DEF RequiredFailure, Failures
<1>2. CASE v.is = "object" /\ "required" \in DOMAIN s
  <2> DEFINE at == [i \in DOMAIN s.required |-> IF s.required[i] \in Names(v) THEN Conforming
                                                ELSE FailsAt(<<s.required[i]>>)]
             n == Len(s.required)
  <2>1. n \in Nat /\ DOMAIN s.required = 1 .. n /\ \A i \in 1 .. n : s.required[i] \in MemberNames
    BY <1>2, InsideASchema
  <2>2. ASSUME NEW i \in 1 .. n
        PROVE  at[i] \in Failures /\ (at[i] = Conforming <=> s.required[i] \in Names(v))
    <3>1. Conforming \in Failures
      BY DEF Failures
    <3>2. FailsAt(<<s.required[i]>>) \in Failures /\ FailsAt(<<s.required[i]>>) # Conforming
      BY <2>1, <3>1, FailuresBelow
    <3>3. QED
      BY <2>1, <3>1, <3>2
  <2>3. RequiredFailure(s, v) = FirstOf(at) /\ DOMAIN at = 1 .. n
    BY <1>2, <2>1 DEF RequiredFailure
  <2> HIDE DEF at, n
  <2>4. /\ FirstOf(at) \in Failures
        /\ FirstOf(at) = Conforming <=> \A i \in 1 .. n : at[i] = Conforming
    BY <2>1, <2>2, <2>3, TheFirstFails
  <2>5. QED
    BY <1>2, <2>1, <2>2, <2>3, <2>4 DEF Range
<1>3. QED
  BY <1>1, <1>2

LEMMA DeclaredAreReported ==
    ASSUME NEW validate, Judges(validate), NEW s \in Schemas, NEW v \in Values
    PROVE  /\ DeclaredFailure(validate, s, v) \in Failures
           /\ DeclaredFailure(validate, s, v) = Conforming
                <=> (v.is = "object" => \A name \in Declared(s) \cap Names(v) :
                       validate[<<s.properties[name], Member(v, name)>>] = Conforming)
<1>1. CASE v.is # "object"
  BY <1>1 DEF DeclaredFailure, Failures
<1>2. CASE v.is = "object"
  <2> DEFINE of == [name \in Declared(s) \cap Names(v) |->
                      validate[<<s.properties[name], Member(v, name)>>]]
  <2>1. DeclaredFailure(validate, s, v) = FirstByName(NamesInOrder, of)
    BY <1>2 DEF DeclaredFailure, InOrder
  <2>2. DOMAIN of = Declared(s) \cap Names(v) /\ DOMAIN of \subseteq MemberNames
    BY InsideASchema
  <2>3. ASSUME NEW name \in DOMAIN of
        PROVE  /\ of[name] = validate[<<s.properties[name], Member(v, name)>>]
               /\ of[name] \in Failures
    <3>1. s.properties[name] \in Schemas /\ Member(v, name) \in Values
      BY <1>2, <2>2, InsideASchema, InsideAValue
    <3>2. QED
      BY <3>1 DEF Judges
  <2> HIDE DEF of
  <2>4. QED
    BY <1>2, <2>1, <2>2, <2>3, TheFirstByNameFails
<1>3. QED
  BY <1>1, <1>2

LEMMA OthersAreReported ==
    ASSUME NEW validate, Judges(validate), NEW s \in Schemas, NEW v \in Values
    PROVE  /\ OthersFailure(validate, s, v) \in Failures
           /\ OthersFailure(validate, s, v) = Conforming
                <=> (v.is = "object" /\ "additionalProperties" \in DOMAIN s =>
                       \A name \in Names(v) \ Declared(s) :
                         /\ s.additionalProperties.is # "never"
                         /\ s.additionalProperties.is = "schema" =>
                              validate[<<s.additionalProperties.schema, Member(v, name)>>] = Conforming)
<1> DEFINE others == v.is = "object" /\ "additionalProperties" \in DOMAIN s
<1>1. CASE ~others
  BY <1>1 DEF OthersFailure, Failures
<1>2. CASE others
  <2> DEFINE Of(name) == CASE s.additionalProperties.is = "never" -> FailsAt(<<>>)
                           [] s.additionalProperties.is = "schema" ->
                                validate[<<s.additionalProperties.schema, Member(v, name)>>]
                           [] OTHER -> Conforming
             of == [name \in Names(v) \ Declared(s) |-> Of(name)]
  <2>1. OthersFailure(validate, s, v) = FirstByName(NamesInOrder, of)
    BY <1>2 DEF OthersFailure, InOrder
  <2>2. DOMAIN of = Names(v) \ Declared(s) /\ DOMAIN of \subseteq MemberNames
    BY <1>2, InsideAValue
  <2>3. ASSUME NEW name \in DOMAIN of
        PROVE  /\ of[name] \in Failures
               /\ of[name] = Conforming <=>
                    /\ s.additionalProperties.is # "never"
                    /\ s.additionalProperties.is = "schema" =>
                         validate[<<s.additionalProperties.schema, Member(v, name)>>] = Conforming
    <3>1. of[name] = Of(name)
      OBVIOUS
    <3>2. Conforming \in Failures /\ FailsAt(<<>>) \in Failures /\ FailsAt(<<>>) # Conforming
      BY FailureHere
    <3>3. s.additionalProperties.is = "schema" =>
            validate[<<s.additionalProperties.schema, Member(v, name)>>] \in Failures
      BY <1>2, <2>2, InsideASchema, InsideAValue DEF Judges
    <3>4. QED
      BY <3>1, <3>2, <3>3
  <2> HIDE DEF of
  <2>4. QED
    BY <1>2, <2>1, <2>2, <2>3, TheFirstByNameFails
<1>3. QED
  BY <1>1, <1>2

\* The only index is there exactly when the indices that match are one.
LEMMA OneAlternative ==
    ASSUME NEW validate, Judges(validate), NEW s \in Schemas, NEW v \in Values, "oneOf" \in DOMAIN s
    PROVE  /\ ExactlyOne(validate, s, v) \in Failures
           /\ ExactlyOne(validate, s, v) = Conforming
                <=> \E i \in DOMAIN s.oneOf :
                      \A j \in DOMAIN s.oneOf : validate[<<s.oneOf[j], v>>] = Conforming <=> i = j
<1> DEFINE matching == Matching(validate, s, v)
<1>1. matching \subseteq DOMAIN s.oneOf
      /\ \A j \in DOMAIN s.oneOf : j \in matching <=> validate[<<s.oneOf[j], v>>] = Conforming
  BY DEF Matching
<1>2. IsFiniteSet(matching)
  <2> DEFINE n == Len(s.oneOf)
  <2>1. n \in Nat /\ DOMAIN s.oneOf = 1 .. n
    BY InsideASchema
  <2> HIDE DEF n
  <2>2. IsFiniteSet(1 .. n)
    BY <2>1, FS_Interval
  <2>3. QED
    BY <1>1, <2>1, <2>2, FS_Subset
<1>3. ExactlyOne(validate, s, v) = IF Cardinality(matching) = 1 THEN Conforming ELSE FailsAt(<<>>)
  BY DEF ExactlyOne
<1>4. Conforming \in Failures /\ FailsAt(<<>>) \in Failures /\ FailsAt(<<>>) # Conforming
  BY FailureHere
<1> HIDE DEF matching
<1>5. Cardinality(matching) = 1 <=> \E i : matching = {i}
  BY <1>2, FS_Singleton, Zenon
<1>6. ASSUME NEW i, matching = {i}
      PROVE  /\ i \in DOMAIN s.oneOf
             /\ \A j \in DOMAIN s.oneOf : validate[<<s.oneOf[j], v>>] = Conforming <=> i = j
  <2>1. \A j : j \in matching <=> i = j
    BY <1>6
  <2>2. QED
    BY <1>1, <2>1
<1>7. ASSUME NEW i \in DOMAIN s.oneOf,
             \A j \in DOMAIN s.oneOf : validate[<<s.oneOf[j], v>>] = Conforming <=> i = j
      PROVE  matching = {i}
  <2>1. \A j \in DOMAIN s.oneOf : j \in matching <=> i = j
    BY <1>1, <1>7, Zenon
  <2>2. \A j : j \in matching <=> j \in {i}
    BY <1>1, <2>1
  <2>3. QED
    BY <2>2
<1>8. QED
  BY <1>3, <1>4, <1>5, <1>6, <1>7, Zenon

\* A judgement of the schemas inside that is right makes the one of the whole right.
LEMMA TheWholeIsDecided ==
    ASSUME NEW validate, Judges(validate), NEW s \in Schemas, NEW v \in Values
    PROVE  /\ FailureGiven(validate, s, v) \in Failures
           /\ FailureGiven(validate, s, v) = Conforming
                <=> ConformsGiven([q \in Schemas \X Values |-> validate[q] = Conforming], s, v)
<1> DEFINE D == Schemas \X Values
           conforms == [q \in D |-> validate[q] = Conforming]
           one == IF "oneOf" \in DOMAIN s THEN ExactlyOne(validate, s, v) ELSE Conforming
           kinds == <<ItemsFailure(validate, s, v), RequiredFailure(s, v),
                      DeclaredFailure(validate, s, v), OthersFailure(validate, s, v), one>>
           AllAreDone == /\ ItemsFailure(validate, s, v) = Conforming
                         /\ RequiredFailure(s, v) = Conforming
                         /\ DeclaredFailure(validate, s, v) = Conforming
                         /\ OthersFailure(validate, s, v) = Conforming
                         /\ one = Conforming
<1>1. /\ one \in Failures
      /\ one = Conforming <=>
           ("oneOf" \in DOMAIN s =>
              \E i \in DOMAIN s.oneOf :
                \A j \in DOMAIN s.oneOf : validate[<<s.oneOf[j], v>>] = Conforming <=> i = j)
  <2>1. CASE "oneOf" \in DOMAIN s
    <3>1. one = ExactlyOne(validate, s, v)
      BY <2>1
    <3>2. /\ ExactlyOne(validate, s, v) \in Failures
          /\ ExactlyOne(validate, s, v) = Conforming
               <=> \E i \in DOMAIN s.oneOf :
                     \A j \in DOMAIN s.oneOf : validate[<<s.oneOf[j], v>>] = Conforming <=> i = j
      BY <2>1, OneAlternative
    <3> HIDE DEF one
    <3>3. QED
      BY <2>1, <3>1, <3>2
  <2>2. CASE "oneOf" \notin DOMAIN s
    BY <2>2, FailureHere
  <2>3. QED
    BY <2>1, <2>2
<1>2. FirstOf(kinds) \in Failures /\ (FirstOf(kinds) = Conforming <=> AllAreDone)
  <2>1. DOMAIN kinds = 1 .. 5 /\ 5 \in Nat
    OBVIOUS
  <2>2. /\ ItemsFailure(validate, s, v) \in Failures /\ RequiredFailure(s, v) \in Failures
        /\ DeclaredFailure(validate, s, v) \in Failures
        /\ OthersFailure(validate, s, v) \in Failures
    BY ItemsAreReported, RequiredIsReported, DeclaredAreReported, OthersAreReported
  <2>3. \A i \in 1 .. 5 : kinds[i] \in Failures
    BY <1>1, <2>2
  <2>4. (\A i \in 1 .. 5 : kinds[i] = Conforming) <=> AllAreDone
    OBVIOUS
  <2> HIDE DEF kinds
  <2>5. QED
    BY <2>1, <2>3, <2>4, TheFirstFails
<1>3. /\ FailureGiven(validate, s, v) \in Failures
      /\ FailureGiven(validate, s, v) = Conforming <=> HoldsAtItself(s, v) /\ AllAreDone
  <2>1. FailureGiven(validate, s, v) = IF ~HoldsAtItself(s, v) THEN FailsAt(<<>>) ELSE FirstOf(kinds)
    BY DEF FailureGiven
  <2> HIDE DEF kinds, AllAreDone
  <2>2. QED
    BY <1>2, <2>1, FailureHere
<1>4. \A t \in Schemas, w \in Values : conforms[<<t, w>>] <=> validate[<<t, w>>] = Conforming
  OBVIOUS
<1> HIDE DEF conforms, one
<1>5. ItemsFailure(validate, s, v) = Conforming
        <=> (v.is = "array" /\ "items" \in DOMAIN s => \A e \in Range(v.items) : conforms[<<s.items, e>>])
  <2>1. v.is = "array" => Range(v.items) \subseteq Values
    BY InsideAValue DEF Range
  <2>2. QED
    BY <1>4, <2>1, ItemsAreReported, InsideASchema
<1>6. (DeclaredFailure(validate, s, v) = Conforming /\ OthersFailure(validate, s, v) = Conforming)
        <=> (v.is = "object" => \A m \in Range(v.members) :
               /\ m.name \in Declared(s) => conforms[<<s.properties[m.name], m.value>>]
               /\ m.name \notin Declared(s) /\ "additionalProperties" \in DOMAIN s =>
                    /\ s.additionalProperties.is # "never"
                    /\ s.additionalProperties.is = "schema" =>
                         conforms[<<s.additionalProperties.schema, m.value>>])
  <2>1. CASE v.is # "object"
    BY <2>1, DeclaredAreReported, OthersAreReported
  <2>2. CASE v.is = "object"
    <3> DEFINE Fits(n) == n \in Declared(s) => conforms[<<s.properties[n], Member(v, n)>>]
               Allowed(n) == n \notin Declared(s) /\ "additionalProperties" \in DOMAIN s =>
                               /\ s.additionalProperties.is # "never"
                               /\ s.additionalProperties.is = "schema" =>
                                    conforms[<<s.additionalProperties.schema, Member(v, n)>>]
    <3>1. /\ \A n \in Names(v) : Member(v, n) \in Values /\ \E m \in Range(v.members) : m.name = n
          /\ \A m \in Range(v.members) : m.name \in Names(v) /\ Member(v, m.name) = m.value
      BY <2>2, InsideAValue DEF Names
    <3>2. DeclaredFailure(validate, s, v) = Conforming <=> \A n \in Names(v) : Fits(n)
      BY <1>4, <2>2, <3>1, DeclaredAreReported, InsideASchema
    <3>3. OthersFailure(validate, s, v) = Conforming <=> \A n \in Names(v) : Allowed(n)
      BY <1>4, <2>2, <3>1, OthersAreReported, InsideASchema
    <3>4. (\A n \in Names(v) : Fits(n) /\ Allowed(n))
            <=> \A m \in Range(v.members) : Fits(m.name) /\ Allowed(m.name)
      <4> HIDE DEF Fits, Allowed
      <4>1. QED
        BY <3>1
    <3>5. QED
      BY <2>2, <3>1, <3>2, <3>3, <3>4
  <2>3. QED
    BY <2>1, <2>2
<1>7. one = Conforming <=>
        ("oneOf" \in DOMAIN s =>
           \E i \in DOMAIN s.oneOf : \A j \in DOMAIN s.oneOf : conforms[<<s.oneOf[j], v>>] <=> i = j)
  BY <1>1, <1>4, InsideASchema
<1>8. RequiredFailure(s, v) = Conforming
        <=> (v.is = "object" /\ "required" \in DOMAIN s => Range(s.required) \subseteq Names(v))
  BY RequiredIsReported
<1>9. AllAreDone /\ HoldsAtItself(s, v) <=> ConformsGiven(conforms, s, v)
  BY <1>5, <1>6, <1>7, <1>8, Zenon DEF ConformsGiven
<1>10. QED
  BY <1>3, <1>9 DEF conforms

\* What is reported depends on what the schemas inside report, and no other.
LEMMA ReportsLookLower ==
    ASSUME NEW g, NEW h, NEW s \in Schemas, NEW v \in Values,
           \A t \in Schemas, w \in Values : SchemaHeight[t] < SchemaHeight[s] => g[<<t, w>>] = h[<<t, w>>]
    PROVE  FailureGiven(g, s, v) = FailureGiven(h, s, v)
<1>1. ItemsFailure(g, s, v) = ItemsFailure(h, s, v)
  <2>1. CASE ~(v.is = "array" /\ "items" \in DOMAIN s)
    BY <2>1 DEF ItemsFailure
  <2>2. CASE v.is = "array" /\ "items" \in DOMAIN s
    <3>1. \A i \in DOMAIN v.items : g[<<s.items, v.items[i]>>] = h[<<s.items, v.items[i]>>]
      BY <2>2, InsideAValue, InsideASchema
    <3>2. [i \in DOMAIN v.items |-> Below(i, g[<<s.items, v.items[i]>>])]
            = [i \in DOMAIN v.items |-> Below(i, h[<<s.items, v.items[i]>>])]
      BY <3>1
    <3>3. QED
      BY <2>2, <3>2 DEF ItemsFailure
  <2>3. QED
    BY <2>1, <2>2
<1>2. DeclaredFailure(g, s, v) = DeclaredFailure(h, s, v)
  <2>1. CASE v.is # "object"
    BY <2>1 DEF DeclaredFailure
  <2>2. CASE v.is = "object"
    <3>1. \A n \in Declared(s) \cap Names(v) :
              g[<<s.properties[n], Member(v, n)>>] = h[<<s.properties[n], Member(v, n)>>]
      BY <2>2, InsideAValue, InsideASchema
    <3>2. [n \in Declared(s) \cap Names(v) |-> g[<<s.properties[n], Member(v, n)>>]]
            = [n \in Declared(s) \cap Names(v) |-> h[<<s.properties[n], Member(v, n)>>]]
      BY <3>1
    <3>3. QED
      BY <2>2, <3>2 DEF DeclaredFailure
  <2>3. QED
    BY <2>1, <2>2
<1>3. OthersFailure(g, s, v) = OthersFailure(h, s, v)
  <2> DEFINE Of(f, n) == CASE s.additionalProperties.is = "never" -> FailsAt(<<>>)
                           [] s.additionalProperties.is = "schema" ->
                                f[<<s.additionalProperties.schema, Member(v, n)>>]
                           [] OTHER -> Conforming
  <2>1. CASE ~(v.is = "object" /\ "additionalProperties" \in DOMAIN s)
    BY <2>1 DEF OthersFailure
  <2>2. CASE v.is = "object" /\ "additionalProperties" \in DOMAIN s
    <3>1. \A n \in Names(v) \ Declared(s) : Of(g, n) = Of(h, n)
      BY <2>2, InsideAValue, InsideASchema
    <3>2. [n \in Names(v) \ Declared(s) |-> Of(g, n)] = [n \in Names(v) \ Declared(s) |-> Of(h, n)]
      BY <3>1, Zenon
    <3>3. QED
      BY <2>2, <3>2 DEF OthersFailure
  <2>3. QED
    BY <2>1, <2>2
<1>4. "oneOf" \in DOMAIN s => ExactlyOne(g, s, v) = ExactlyOne(h, s, v)
  <2>1. SUFFICES ASSUME "oneOf" \in DOMAIN s PROVE Matching(g, s, v) = Matching(h, s, v)
    BY DEF ExactlyOne
  <2>2. \A i \in DOMAIN s.oneOf : g[<<s.oneOf[i], v>>] = h[<<s.oneOf[i], v>>]
    BY <2>1, InsideASchema
  <2>3. QED
    BY <2>2 DEF Matching
<1>5. QED
  BY <1>1, <1>2, <1>3, <1>4 DEF FailureGiven

LEMMA ValidateUnfolds ==
    /\ Judges(Validate)
    /\ \A s \in Schemas, v \in Values : Validate[<<s, v>>] = FailureGiven(Validate, s, v)
<1> DEFINE D == Schemas \X Values
           R == Failures
           height == [q \in D |-> SchemaHeight[q[1]]]
           F == [g \in [D -> R] |-> [q \in D |-> FailureGiven(g, q[1], q[2])]]
           Solution(g) == g = [q \in D |-> FailureGiven(g, q[1], q[2])]
<1>1. R # {} /\ height \in [D -> Nat]
  BY FailureHere, TreesAssumption
<1>2. F \in [[D -> R] -> [D -> R]]
  <2>1. \A g \in [D -> R], q \in D : FailureGiven(g, q[1], q[2]) \in R
    BY TheWholeIsDecided DEF Judges
  <2> HIDE DEF D, R
  <2>2. QED
    BY <2>1
<1>3. ASSUME NEW g \in [D -> R], NEW h \in [D -> R], NEW q \in D,
             \A p \in D : height[p] < height[q] => g[p] = h[p]
      PROVE  F[g][q] = F[h][q]
  <2>1. PICK s \in Schemas, v \in Values : q = <<s, v>>
    OBVIOUS
  <2>2. \A t \in Schemas, w \in Values : SchemaHeight[t] < SchemaHeight[s] => g[<<t, w>>] = h[<<t, w>>]
    BY <1>3, <2>1
  <2>3. FailureGiven(g, s, v) = FailureGiven(h, s, v)
    BY <2>2, ReportsLookLower
  <2>4. QED
    BY <2>1, <2>3
<1>4. \E g \in [D -> R] : g = F[g]
  <2>1. LooksLower(F, D, R, height)
    <3> HIDE DEF D, height, F, R
    <3>1. QED
      BY <1>1, <1>2, <1>3 DEF LooksLower
  <2> HIDE DEF D, height, F, R
  <2>2. QED
    BY <2>1, RecursionHasASolution
<1>5. PICK g \in [D -> R] : g = F[g]
  BY <1>4
<1>6. Solution(g)
  BY <1>5
<1>7. Solution(CHOOSE f : Solution(f))
  <2> HIDE DEF Solution
  <2>1. QED
    BY <1>6, Zenon
<1>8. Validate = CHOOSE f : Solution(f)
  BY DEF Validate
<1>9. Solution(Validate)
  <2> HIDE DEF Solution
  <2>1. QED
    BY <1>7, <1>8, Zenon
<1>10. \A s \in Schemas, v \in Values : Validate[<<s, v>>] = FailureGiven(Validate, s, v)
  BY <1>9
<1>11. Schemas \subseteq {s \in Schemas : \A v \in Values : Validate[<<s, v>>] \in Failures}
  <2> DEFINE typed == {s \in Schemas : \A v \in Values : Validate[<<s, v>>] \in Failures}
             h == [q \in D |-> IF Validate[q] \in Failures THEN Validate[q] ELSE Conforming]
  <2>1. SchemaHeight \in [Schemas -> Nat]
    BY TreesAssumption
  <2>2. Judges(h)
    BY FailureHere DEF Judges
  <2>3. ASSUME NEW s \in Schemas, \A t \in Schemas : SchemaHeight[t] < SchemaHeight[s] => t \in typed
        PROVE  s \in typed
    <3>1. \A t \in Schemas, w \in Values :
              SchemaHeight[t] < SchemaHeight[s] => Validate[<<t, w>>] = h[<<t, w>>]
      BY <2>3
    <3> HIDE DEF h
    <3>2. ASSUME NEW v \in Values PROVE Validate[<<s, v>>] \in Failures
      <4>1. FailureGiven(Validate, s, v) = FailureGiven(h, s, v)
        BY <3>1, ReportsLookLower
      <4>2. FailureGiven(h, s, v) \in Failures
        BY <2>2, TheWholeIsDecided
      <4>3. QED
        BY <1>10, <4>1, <4>2
    <3>3. QED
      BY <3>2
  <2> HIDE DEF typed
  <2>4. Schemas \subseteq typed
    BY <2>1, <2>3, ByHeight
  <2>5. QED
    BY <2>4 DEF typed
<1>12. Judges(Validate)
  <2>1. \A q \in D : Validate[q] \in Failures
    BY <1>11
  <2>2. Validate = [q \in D |-> FailureGiven(Validate, q[1], q[2])]
    BY <1>9
  <2> HIDE DEF D
  <2>3. Validate \in [D -> Failures]
    BY <2>1, <2>2
  <2> USE DEF D
  <2>4. QED
    BY <2>3 DEF Judges
<1>13. QED
  BY <1>10, <1>12

-----------------------------------------------------------------------------
\* The validator reports no failure exactly when the value conforms to the schema,
\* for any schema and value: visiting the keywords in their order, and stopping
\* at the first that fails, accepts what the definition of conformance accepts.
THEOREM ValidatorDecides ==
    \A s \in Schemas, v \in Values : Validate[<<s, v>>] = Conforming <=> Conforms[<<s, v>>]
<1> DEFINE found == [q \in Schemas \X Values |-> Validate[q] = Conforming]
           right == {s \in Schemas : \A v \in Values : found[<<s, v>>] = Conforms[<<s, v>>]}
<1>1. /\ Conforms \in [Schemas \X Values -> BOOLEAN]
      /\ \A s \in Schemas, v \in Values : Conforms[<<s, v>>] = ConformsGiven(Conforms, s, v)
  BY ConformsUnfolds
<1>2. found \in [Schemas \X Values -> BOOLEAN]
  OBVIOUS
<1>3. ASSUME NEW s \in Schemas, NEW v \in Values
      PROVE  found[<<s, v>>] = ConformsGiven(found, s, v)
  <2>1. Validate[<<s, v>>] = Conforming <=> ConformsGiven(found, s, v)
    BY ValidateUnfolds, TheWholeIsDecided
  <2>2. found[<<s, v>>] <=> Validate[<<s, v>>] = Conforming
    OBVIOUS
  <2>3. found[<<s, v>>] \in BOOLEAN /\ ConformsGiven(found, s, v) \in BOOLEAN
    BY DEF ConformsGiven
  <2> HIDE DEF found
  <2>4. QED
    BY <2>1, <2>2, <2>3
<1> HIDE DEF found
<1>4. ASSUME NEW s \in Schemas, \A t \in Schemas : SchemaHeight[t] < SchemaHeight[s] => t \in right
      PROVE  s \in right
  <2>1. \A t \in Schemas, w \in Values :
            SchemaHeight[t] < SchemaHeight[s] => found[<<t, w>>] = Conforms[<<t, w>>]
    BY <1>4
  <2>2. \A v \in Values : ConformsGiven(found, s, v) = ConformsGiven(Conforms, s, v)
    BY <1>1, <1>2, <2>1, ConformanceLooksLower
  <2>3. QED
    BY <1>1, <1>3, <2>2
<1>5. SchemaHeight \in [Schemas -> Nat]
  BY TreesAssumption
<1> HIDE DEF right
<1>6. Schemas \subseteq right
  BY <1>4, <1>5, ByHeight
<1>7. \A s \in Schemas, v \in Values : found[<<s, v>>] = Conforms[<<s, v>>]
  BY <1>6 DEF right
<1>8. QED
  BY <1>7 DEF found

\* deepEqual is an equality: symmetric, and transitive.
LEMMA DeepEqualIsSymmetric ==
    \A a \in Values, b \in Values : DeepEqual[<<a, b>>] => DeepEqual[<<b, a>>]
<1> DEFINE T == {a \in Values : \A b \in Values : DeepEqual[<<a, b>>] => DeepEqual[<<b, a>>]}
<1>1. /\ DeepEqual \in [Values \X Values -> BOOLEAN]
      /\ \A a \in Values, b \in Values : DeepEqual[<<a, b>>] = EqualGiven(DeepEqual, a, b)
  BY DeepEqualUnfolds
<1>2. ASSUME NEW a \in Values, \A c \in Values : ValueHeight[c] < ValueHeight[a] => c \in T
      PROVE  a \in T
  <2>1. ASSUME NEW b \in Values, EqualGiven(DeepEqual, a, b) PROVE EqualGiven(DeepEqual, b, a)
    <3>1. CASE a = b
      BY <3>1 DEF EqualGiven
    <3>2. CASE /\ a.is = "array" /\ b.is = "array" /\ Len(a.items) = Len(b.items)
               /\ \A i \in DOMAIN a.items : DeepEqual[<<a.items[i], b.items[i]>>]
      <4>1. DOMAIN a.items = DOMAIN b.items
        BY <3>2, InsideAValue
      <4>2. \A i \in DOMAIN a.items : a.items[i] \in T /\ b.items[i] \in Values
        BY <1>2, <3>2, <4>1, InsideAValue
      <4>3. \A i \in DOMAIN b.items : DeepEqual[<<b.items[i], a.items[i]>>]
        BY <3>2, <4>1, <4>2
      <4>4. QED
        BY <3>2, <4>3 DEF EqualGiven
    <3>3. CASE /\ a.is = "object" /\ b.is = "object" /\ Names(a) = Names(b)
               /\ \A n \in Names(a) : DeepEqual[<<Member(a, n), Member(b, n)>>]
      <4>1. \A n \in Names(a) : Member(a, n) \in T /\ Member(b, n) \in Values
        BY <1>2, <3>3, InsideAValue
      <4>2. \A n \in Names(b) : DeepEqual[<<Member(b, n), Member(a, n)>>]
        BY <3>3, <4>1
      <4>3. QED
        BY <3>3, <4>2 DEF EqualGiven
    <3>4. QED
      BY <2>1, <3>1, <3>2, <3>3 DEF EqualGiven
  <2>2. QED
    BY <1>1, <2>1
<1>3. ValueHeight \in [Values -> Nat]
  BY TreesAssumption
<1> HIDE DEF T
<1>4. Values \subseteq T
  BY <1>2, <1>3, ByHeight
<1>5. QED
  BY <1>4 DEF T

LEMMA DeepEqualIsTransitive ==
    \A a \in Values, b \in Values, c \in Values :
        DeepEqual[<<a, b>>] /\ DeepEqual[<<b, c>>] => DeepEqual[<<a, c>>]
<1> DEFINE T == {a \in Values : \A b \in Values, c \in Values :
                                   DeepEqual[<<a, b>>] /\ DeepEqual[<<b, c>>] => DeepEqual[<<a, c>>]}
<1>1. /\ DeepEqual \in [Values \X Values -> BOOLEAN]
      /\ \A a \in Values, b \in Values : DeepEqual[<<a, b>>] = EqualGiven(DeepEqual, a, b)
  BY DeepEqualUnfolds
<1>2. ASSUME NEW a \in Values, \A d \in Values : ValueHeight[d] < ValueHeight[a] => d \in T
      PROVE  a \in T
  <2>1. ASSUME NEW b \in Values, NEW c \in Values,
               EqualGiven(DeepEqual, a, b), EqualGiven(DeepEqual, b, c)
        PROVE  EqualGiven(DeepEqual, a, c)
    <3>1. CASE a = b \/ b = c
      BY <2>1, <3>1
    <3>2. CASE /\ a.is = "array" /\ b.is = "array" /\ Len(a.items) = Len(b.items)
               /\ \A i \in DOMAIN a.items : DeepEqual[<<a.items[i], b.items[i]>>]
               /\ b # c
      <4>1. /\ c.is = "array" /\ Len(b.items) = Len(c.items)
            /\ \A i \in DOMAIN b.items : DeepEqual[<<b.items[i], c.items[i]>>]
        BY <2>1, <3>2 DEF EqualGiven
      <4>2. DOMAIN a.items = DOMAIN b.items /\ DOMAIN a.items = DOMAIN c.items
        BY <3>2, <4>1, InsideAValue
      <4>3. \A i \in DOMAIN a.items : a.items[i] \in T /\ b.items[i] \in Values /\ c.items[i] \in Values
        BY <1>2, <3>2, <4>1, <4>2, InsideAValue
      <4>4. \A i \in DOMAIN a.items : DeepEqual[<<a.items[i], c.items[i]>>]
        BY <3>2, <4>1, <4>2, <4>3
      <4>5. QED
        BY <3>2, <4>1, <4>4 DEF EqualGiven
    <3>3. CASE /\ a.is = "object" /\ b.is = "object" /\ Names(a) = Names(b)
               /\ \A n \in Names(a) : DeepEqual[<<Member(a, n), Member(b, n)>>]
               /\ b # c
      <4>1. /\ c.is = "object" /\ Names(b) = Names(c)
            /\ \A n \in Names(b) : DeepEqual[<<Member(b, n), Member(c, n)>>]
        BY <2>1, <3>3 DEF EqualGiven
      <4>2. \A n \in Names(a) : /\ Member(a, n) \in T /\ Member(b, n) \in Values
                                /\ Member(c, n) \in Values
        BY <1>2, <3>3, <4>1, InsideAValue
      <4>3. \A n \in Names(a) : DeepEqual[<<Member(a, n), Member(c, n)>>]
        BY <3>3, <4>1, <4>2
      <4>4. QED
        BY <3>3, <4>1, <4>3 DEF EqualGiven
    <3>4. QED
      BY <2>1, <3>1, <3>2, <3>3 DEF EqualGiven
  <2>2. QED
    BY <1>1, <2>1
<1>3. ValueHeight \in [Values -> Nat]
  BY TreesAssumption
<1> HIDE DEF T
<1>4. Values \subseteq T
  BY <1>2, <1>3, ByHeight
<1>5. QED
  BY <1>4 DEF T

\* Values that are deeply equal have the same shape.
LEMMA DeepEqualIsSameShape ==
    ASSUME NEW v \in Values, NEW w \in Values, DeepEqual[<<v, w>>]
    PROVE  \/ v = w
           \/ /\ v.is = "array" /\ w.is = "array"
              /\ Len(v.items) = Len(w.items) /\ DOMAIN v.items = DOMAIN w.items
              /\ \A i \in DOMAIN v.items : /\ v.items[i] \in Values /\ w.items[i] \in Values
                                           /\ DeepEqual[<<v.items[i], w.items[i]>>]
           \/ /\ v.is = "object" /\ w.is = "object" /\ Names(v) = Names(w)
              /\ \A n \in Names(v) : /\ Member(v, n) \in Values /\ Member(w, n) \in Values
                                     /\ DeepEqual[<<Member(v, n), Member(w, n)>>]
<1>1. EqualGiven(DeepEqual, v, w)
  BY DeepEqualUnfolds
<1>2. v.is = "array" /\ w.is = "array" /\ Len(v.items) = Len(w.items) => DOMAIN v.items = DOMAIN w.items
  BY InsideAValue
<1>3. /\ v.is = "array" => \A i \in DOMAIN v.items : v.items[i] \in Values
      /\ w.is = "array" => \A i \in DOMAIN w.items : w.items[i] \in Values
      /\ v.is = "object" => \A n \in Names(v) : Member(v, n) \in Values
      /\ w.is = "object" => \A n \in Names(w) : Member(w, n) \in Values
  BY InsideAValue
<1>4. QED
  BY <1>1, <1>2, <1>3 DEF EqualGiven

LEMMA HoldsOfEqualValues ==
    ASSUME NEW s \in Schemas, NEW v \in Values, NEW w \in Values, DeepEqual[<<v, w>>]
    PROVE  HoldsAtItself(s, v) = HoldsAtItself(s, w)
<1>1. \A x \in Values : DeepEqual[<<v, x>>] <=> DeepEqual[<<w, x>>]
  <2>1. DeepEqual[<<w, v>>]
    BY DeepEqualIsSymmetric
  <2>2. QED
    BY <2>1, DeepEqualIsTransitive
<1>2. /\ "const" \in DOMAIN s => s.const \in Values
      /\ "enum" \in DOMAIN s => s.enum \subseteq Values
  BY TreesAssumption
<1>3. CASE v = w
  BY <1>3
<1>4. CASE v.is = "array" /\ w.is = "array" /\ Len(v.items) = Len(w.items)
  BY <1>1, <1>2, <1>4 DEF HoldsAtItself, MatchesType
<1>5. CASE v.is = "object" /\ w.is = "object"
  BY <1>1, <1>2, <1>5 DEF HoldsAtItself, MatchesType
<1>6. QED
  BY <1>3, <1>4, <1>5, DeepEqualIsSameShape

\* The validator reports the same failure, at the same place, of any two values
\* that differ only in the order their members were written in.
THEOREM ReportsAreOfTheValue ==
    \A s \in Schemas, v \in Values, w \in Values :
        DeepEqual[<<v, w>>] => Validate[<<s, v>>] = Validate[<<s, w>>]
<1> DEFINE T == {s \in Schemas : \A v \in Values, w \in Values :
                                   DeepEqual[<<v, w>>] => Validate[<<s, v>>] = Validate[<<s, w>>]}
<1>1. ASSUME NEW s \in Schemas, \A t \in Schemas : SchemaHeight[t] < SchemaHeight[s] => t \in T,
             NEW v \in Values, NEW w \in Values, DeepEqual[<<v, w>>], v # w
      PROVE  FailureGiven(Validate, s, v) = FailureGiven(Validate, s, w)
  <2>1. \A t \in Schemas, x \in Values, y \in Values :
            SchemaHeight[t] < SchemaHeight[s] /\ DeepEqual[<<x, y>>] => Validate[<<t, x>>] = Validate[<<t, y>>]
    BY <1>1
  <2>2. \/ /\ v.is = "array" /\ w.is = "array"
           /\ Len(v.items) = Len(w.items) /\ DOMAIN v.items = DOMAIN w.items
           /\ \A i \in DOMAIN v.items : /\ v.items[i] \in Values /\ w.items[i] \in Values
                                        /\ DeepEqual[<<v.items[i], w.items[i]>>]
        \/ /\ v.is = "object" /\ w.is = "object" /\ Names(v) = Names(w)
           /\ \A n \in Names(v) : /\ Member(v, n) \in Values /\ Member(w, n) \in Values
                                  /\ DeepEqual[<<Member(v, n), Member(w, n)>>]
    BY <1>1, DeepEqualIsSameShape
  <2>3. HoldsAtItself(s, v) = HoldsAtItself(s, w)
    BY <1>1, HoldsOfEqualValues
  <2>4. ItemsFailure(Validate, s, v) = ItemsFailure(Validate, s, w)
    <3>1. CASE ~(v.is = "array" /\ "items" \in DOMAIN s)
      BY <2>2, <3>1 DEF ItemsFailure
    <3>2. CASE v.is = "array" /\ "items" \in DOMAIN s
      <4>1. /\ w.is = "array" /\ DOMAIN v.items = DOMAIN w.items
            /\ \A i \in DOMAIN v.items : /\ v.items[i] \in Values /\ w.items[i] \in Values
                                         /\ DeepEqual[<<v.items[i], w.items[i]>>]
        BY <2>2, <3>2
      <4>2. \A i \in DOMAIN v.items : Validate[<<s.items, v.items[i]>>] = Validate[<<s.items, w.items[i]>>]
        BY <2>1, <3>2, <4>1, InsideASchema
      <4>3. [i \in DOMAIN v.items |-> Below(i, Validate[<<s.items, v.items[i]>>])]
              = [i \in DOMAIN w.items |-> Below(i, Validate[<<s.items, w.items[i]>>])]
        BY <4>1, <4>2
      <4>4. QED
        BY <3>2, <4>1, <4>3 DEF ItemsFailure
    <3>3. QED
      BY <3>1, <3>2
  <2>5. RequiredFailure(s, v) = RequiredFailure(s, w)
    BY <2>2 DEF RequiredFailure
  <2>6. DeclaredFailure(Validate, s, v) = DeclaredFailure(Validate, s, w)
    <3>1. CASE v.is # "object"
      BY <2>2, <3>1 DEF DeclaredFailure
    <3>2. CASE v.is = "object"
      <4>1. /\ w.is = "object" /\ Names(v) = Names(w)
            /\ \A n \in Names(v) : /\ Member(v, n) \in Values /\ Member(w, n) \in Values
                                   /\ DeepEqual[<<Member(v, n), Member(w, n)>>]
        BY <2>2, <3>2
      <4>2. \A n \in Declared(s) \cap Names(v) :
                Validate[<<s.properties[n], Member(v, n)>>] = Validate[<<s.properties[n], Member(w, n)>>]
        BY <2>1, <4>1, InsideASchema
      <4>3. [n \in Declared(s) \cap Names(v) |-> Validate[<<s.properties[n], Member(v, n)>>]]
              = [n \in Declared(s) \cap Names(w) |-> Validate[<<s.properties[n], Member(w, n)>>]]
        BY <4>1, <4>2
      <4>4. QED
        BY <3>2, <4>1, <4>3 DEF DeclaredFailure, InOrder
    <3>3. QED
      BY <3>1, <3>2
  <2>7. OthersFailure(Validate, s, v) = OthersFailure(Validate, s, w)
    <3> DEFINE Of(x, n) == CASE s.additionalProperties.is = "never" -> FailsAt(<<>>)
                             [] s.additionalProperties.is = "schema" ->
                                  Validate[<<s.additionalProperties.schema, Member(x, n)>>]
                             [] OTHER -> Conforming
    <3>1. CASE ~(v.is = "object" /\ "additionalProperties" \in DOMAIN s)
      BY <2>2, <3>1 DEF OthersFailure
    <3>2. CASE v.is = "object" /\ "additionalProperties" \in DOMAIN s
      <4>1. /\ w.is = "object" /\ Names(v) = Names(w)
            /\ \A n \in Names(v) : /\ Member(v, n) \in Values /\ Member(w, n) \in Values
                                   /\ DeepEqual[<<Member(v, n), Member(w, n)>>]
        BY <2>2, <3>2
      <4>2. \A n \in Names(v) \ Declared(s) : Of(v, n) = Of(w, n)
        BY <2>1, <3>2, <4>1, InsideASchema
      <4>3. [n \in Names(v) \ Declared(s) |-> Of(v, n)] = [n \in Names(w) \ Declared(s) |-> Of(w, n)]
        <5> HIDE DEF Of
        <5>1. QED
          BY <4>1, <4>2
      <4>4. QED
        BY <3>2, <4>1, <4>3 DEF OthersFailure, InOrder
    <3>3. QED
      BY <3>1, <3>2
  <2>8. "oneOf" \in DOMAIN s => ExactlyOne(Validate, s, v) = ExactlyOne(Validate, s, w)
    <3>1. SUFFICES ASSUME "oneOf" \in DOMAIN s PROVE Matching(Validate, s, v) = Matching(Validate, s, w)
      BY DEF ExactlyOne
    <3>2. \A i \in DOMAIN s.oneOf : Validate[<<s.oneOf[i], v>>] = Validate[<<s.oneOf[i], w>>]
      BY <1>1, <2>1, <3>1, InsideASchema
    <3>3. QED
      BY <3>2 DEF Matching
  <2>9. QED
    BY <2>3, <2>4, <2>5, <2>6, <2>7, <2>8 DEF FailureGiven
<1>2. ASSUME NEW s \in Schemas, \A t \in Schemas : SchemaHeight[t] < SchemaHeight[s] => t \in T
      PROVE  s \in T
  <2> HIDE DEF T
  <2>1. ASSUME NEW v \in Values, NEW w \in Values, DeepEqual[<<v, w>>]
        PROVE  Validate[<<s, v>>] = Validate[<<s, w>>]
    <3>1. CASE v = w
      BY <3>1
    <3>2. CASE v # w
      <4>1. FailureGiven(Validate, s, v) = FailureGiven(Validate, s, w)
        BY <1>1, <1>2, <2>1, <3>2
      <4>2. QED
        BY <4>1, ValidateUnfolds
    <3>3. QED
      BY <3>1, <3>2
  <2>2. QED
    BY <2>1 DEF T
<1>3. SchemaHeight \in [Schemas -> Nat]
  BY TreesAssumption
<1> HIDE DEF T
<1>4. Schemas \subseteq T
  BY <1>2, <1>3, ByHeight
<1>5. QED
  BY <1>4 DEF T

-----------------------------------------------------------------------------
(***************************************************************************)
(* The verify workflow: what a judgement is, and what a cut saves.         *)
(***************************************************************************)
Cost(units) == [i \in DOMAIN units |-> Bytes(units, i)]

\* The cut after k units falls between the halves of a surrogate pair.
Splits(units, k) == k >= 1 /\ k < Len(units) /\ units[k] = "high" /\ units[k + 1] = "low"

LEMMA CostTypes ==
    ASSUME NEW U, NEW units \in Seq(U)
    PROVE  /\ Len(units) \in Nat /\ DOMAIN units = 1 .. Len(units)
           /\ \A i \in 1 .. Len(units) : Cost(units)[i] \in 0 .. 6
           /\ \A m \in Nat, n \in 0 .. Len(units) :
                  IsFiniteSet(m + 1 .. n) /\ Amounted(Cost(units), m + 1 .. n)
<1>1. Len(units) \in Nat /\ DOMAIN units = 1 .. Len(units)
  BY LenProperties
<1>2. \A i \in 1 .. Len(units) : Cost(units)[i] \in 0 .. 6
  BY <1>1 DEF Cost, Bytes
<1>3. \A m \in Nat, n \in 0 .. Len(units) : IsFiniteSet(m + 1 .. n)
  BY <1>1, FS_Interval
<1>4. QED
  BY <1>1, <1>2, <1>3 DEF Amounted

\* A unit costs a byte at least, but for the second half of a pair, which
\* the first has paid for.
LEMMA UnitsCost ==
    ASSUME NEW U, NEW units \in Seq(U), NEW k \in Nat, NEW l \in Nat, k <= l, l <= Len(units)
    PROVE  /\ Total(Cost(units), k + 1 .. l) \in Nat
           /\ Total(Cost(units), k + 1 .. l) + 1 >= l - k
           /\ ~ Splits(units, k) => Total(Cost(units), k + 1 .. l) >= l - k
<1> DEFINE run == k + 1 .. l
           paid == {i \in run : Cost(units)[i] # 0 \/ i # k + 1}
           unit == [i \in paid |-> IF Cost(units)[i] # 0 THEN <<i, 1>> ELSE <<i - 1, 2>>]
<1>1. /\ Len(units) \in Nat /\ DOMAIN units = 1 .. Len(units)
      /\ \A i \in 1 .. Len(units) : Cost(units)[i] \in 0 .. 6
      /\ IsFiniteSet(run) /\ Amounted(Cost(units), run)
  BY CostTypes
<1>2. IsFiniteSet(Units(Cost(units), run)) /\ Total(Cost(units), run) \in Nat
  BY <1>1, TotalIsNat
<1>3. ASSUME NEW i \in run, Cost(units)[i] = 0
      PROVE  i > 1 /\ units[i] = "low" /\ units[i - 1] = "high" /\ Cost(units)[i - 1] = 4
  <2>1. i \in 1 .. Len(units) /\ Bytes(units, i) = 0
    BY <1>1, <1>3 DEF Cost
  <2>2. i > 1 /\ units[i] = "low" /\ units[i - 1] = "high"
    BY <1>1, <2>1 DEF Bytes
  <2>3. i - 1 \in 1 .. Len(units) /\ i - 1 < Len(units) /\ (i - 1) + 1 = i
    BY <1>1, <2>1, <2>2
  <2>4. Bytes(units, i - 1) = 4
    BY <2>2, <2>3 DEF Bytes
  <2>5. QED
    BY <1>1, <2>2, <2>3, <2>4 DEF Cost
<1>4. unit \in Injection(paid, Units(Cost(units), run))
  <2>1. ASSUME NEW i \in paid PROVE unit[i] \in Units(Cost(units), run)
    <3>1. CASE Cost(units)[i] # 0
      <4>1. i \in run /\ 1 \in 1 .. Cost(units)[i]
        BY <1>1, <3>1
      <4>2. QED
        BY <3>1, <4>1 DEF Units
    <3>2. CASE Cost(units)[i] = 0
      <4>1. i - 1 \in run /\ 2 \in 1 .. Cost(units)[i - 1]
        BY <1>1, <1>3, <3>2
      <4>2. QED
        BY <3>2, <4>1 DEF Units
    <3>3. QED
      BY <3>1, <3>2
  <2>2. ASSUME NEW i \in paid, NEW j \in paid, unit[i] = unit[j] PROVE i = j
    BY <1>1, <2>2
  <2>3. unit \in [paid -> Units(Cost(units), run)]
    BY <2>1, Zenon
  <2>4. \A i \in paid, j \in paid : unit[i] = unit[j] => i = j
    BY <2>2, Zenon
  <2>5. QED
    BY <2>3, <2>4 DEF Injection, IsInjective
<1>5. Cardinality(paid) <= Total(Cost(units), run)
  BY <1>2, <1>4, FS_Injection DEF Total
<1>6. Cardinality(run) = l - k
  <2>1. CASE k = l
    BY <2>1, FS_Interval
  <2>2. CASE k < l
    BY <2>2, FS_Interval
  <2>3. QED
    BY <2>1, <2>2
<1>7. IsFiniteSet(paid) /\ Cardinality(paid) \in Nat
  BY <1>1, FS_Subset, FS_CardinalityType
<1>8. CASE paid = run
  <2>1. Cardinality(paid) = l - k
    BY <1>6, <1>8, Zenon
  <2>2. QED
    BY <1>2, <1>5, <2>1
<1>9. CASE paid # run
  <2>1. k + 1 \in run /\ Cost(units)[k + 1] = 0 /\ paid = run \ {k + 1}
    BY <1>9
  <2>2. Cardinality(paid) = Cardinality(run) - 1
    <3>1. \A S, x : IsFiniteSet(S) /\ x \in S => Cardinality(S \ {x}) = Cardinality(S) - 1
      BY FS_RemoveElement
    <3>2. IsFiniteSet(run)
      BY <1>1
    <3> HIDE DEF run, paid
    <3>3. QED
      BY <2>1, <3>1, <3>2, Zenon
  <2>3. Splits(units, k)
    BY <1>1, <1>3, <2>1 DEF Splits
  <2>4. QED
    BY <1>2, <1>5, <1>6, <2>2, <2>3
<1>10. QED
  BY <1>8, <1>9

\* What is left after k units costs what it cost, but for the first half of
\* a pair whose second half is cut off: six bytes instead of four.
LEMMA KeptCosts ==
    ASSUME NEW U, NEW units \in Seq(U), NEW k \in 0 .. Len(units)
    PROVE  LET kept == SubSeq(units, 1, k)
               extra == IF Splits(units, k) THEN 2 ELSE 0
           IN  /\ kept \in Seq(U) /\ Len(kept) = k
               /\ \A i \in 1 .. k : kept[i] = units[i]
               /\ BodyBytes(kept) \in Nat
               /\ BodyBytes(kept) = Total(Cost(units), 1 .. k) + extra
               /\ Total(Cost(units), 1 .. k) \in Nat
<1> DEFINE kept == SubSeq(units, 1, k)
<1>1. /\ Len(units) \in Nat /\ DOMAIN units = 1 .. Len(units)
      /\ \A i \in 1 .. Len(units) : Cost(units)[i] \in 0 .. 6
      /\ \A m \in Nat, n \in 0 .. Len(units) :
             IsFiniteSet(m + 1 .. n) /\ Amounted(Cost(units), m + 1 .. n)
  BY CostTypes
<1>2. kept \in Seq(U) /\ Len(kept) = k /\ \A i \in 1 .. k : kept[i] = units[i]
  <2>1. 1 \in 1 .. Len(units) + 1 /\ k \in 1 - 1 .. Len(units)
    BY <1>1
  <2>2. /\ kept \in Seq(U)
        /\ Len(kept) = IF 1 <= k THEN k - 1 + 1 ELSE 0
        /\ \A i \in 1 .. k - 1 + 1 : kept[i] = units[1 + i - 1]
    BY <2>1, SubSeqProperties
  <2>3. QED
    BY <1>1, <2>2
<1> HIDE DEF kept
<1>3. /\ DOMAIN kept = 1 .. k
      /\ \A i \in 1 .. k : Cost(kept)[i] \in 0 .. 6
      /\ Amounted(Cost(kept), 1 .. k)
  <2>1. /\ DOMAIN kept = 1 .. Len(kept)
        /\ \A i \in 1 .. Len(kept) : Cost(kept)[i] \in 0 .. 6
    BY <1>2, CostTypes
  <2>2. \A i \in 1 .. k : Cost(kept)[i] \in 0 .. 6 /\ Cost(kept)[i] \in Nat
    BY <1>2, <2>1
  <2>3. QED
    BY <1>2, <2>1, <2>2 DEF Amounted
<1>4. IsFiniteSet(1 .. k) /\ Amounted(Cost(units), 1 .. k)
  <2>1. \A i \in 1 .. k : Cost(units)[i] \in Nat
    BY <1>1
  <2>2. QED
    BY <2>1, FS_Interval DEF Amounted
<1>5. BodyBytes(kept) = Total(Cost(kept), 1 .. k)
  BY <1>3, Zenon DEF BodyBytes, Cost
<1>6. Total(Cost(kept), 1 .. k) \in Nat /\ Total(Cost(units), 1 .. k) \in Nat
  BY <1>3, <1>4, TotalIsNat
<1>7. ASSUME NEW i \in 1 .. k, ~ (i = k /\ Splits(units, k)) PROVE Cost(kept)[i] = Cost(units)[i]
  <2>1. i \in 1 .. Len(units) /\ kept[i] = units[i]
    BY <1>1, <1>2
  <2>2. i < k => i + 1 \in 1 .. k /\ kept[i + 1] = units[i + 1]
    BY <1>1, <1>2
  <2>3. i > 1 => i - 1 \in 1 .. k /\ kept[i - 1] = units[i - 1]
    BY <1>1, <1>2
  <2>4. i = k => ~ (kept[i] = "high" /\ i < Len(units) /\ units[i + 1] = "low")
    BY <1>1, <1>7, <2>1 DEF Splits
  <2>5. i < k => Bytes(kept, i) = Bytes(units, i)
    BY <1>1, <1>2, <2>1, <2>2, <2>3 DEF Bytes
  <2>6. i = k => Bytes(kept, i) = Bytes(units, i)
    BY <1>1, <1>2, <2>1, <2>3, <2>4 DEF Bytes
  <2>7. QED
    BY <1>1, <1>3, <2>5, <2>6 DEF Cost
<1>8. ASSUME ~ Splits(units, k) PROVE BodyBytes(kept) = Total(Cost(units), 1 .. k)
  <2>1. Total(Cost(kept), 1 .. k) = Total(Cost(units), 1 .. k)
    BY <1>7, <1>8, SameTotal
  <2>2. QED
    BY <1>5, <2>1
<1>9. ASSUME Splits(units, k) PROVE BodyBytes(kept) = Total(Cost(units), 1 .. k) + 2
  <2>1. k \in 1 .. k /\ k \in 1 .. Len(units) /\ units[k] = "high" /\ k < Len(units) /\ units[k + 1] = "low"
    BY <1>1, <1>9 DEF Splits
  <2>2. Cost(units)[k] = 4
    BY <1>1, <2>1 DEF Cost, Bytes
  <2>3. Cost(kept)[k] = 6
    BY <1>2, <1>3, <2>1 DEF Cost, Bytes
  <2>4. \A i \in (1 .. k) \ {k} : Cost(kept)[i] = Cost(units)[i]
    BY <1>7
  <2>5. Total(Cost(kept), 1 .. k) = Total(Cost(units), 1 .. k) - Cost(units)[k] + Cost(kept)[k]
    BY <1>3, <1>4, <2>1, <2>4, TotalChanges
  <2>6. QED
    BY <1>5, <1>6, <2>2, <2>3, <2>5
<1>10. BodyBytes(kept) \in Nat
  BY <1>5, <1>6
<1>11. QED
  BY <1>2, <1>6, <1>8, <1>9, <1>10 DEF kept

\* What a body costs is what its parts cost before and after a cut.
LEMMA CostIsOfBothParts ==
    ASSUME NEW U, NEW units \in Seq(U), NEW k \in 0 .. Len(units)
    PROVE  /\ BodyBytes(units) = Total(Cost(units), 1 .. k) + Total(Cost(units), k + 1 .. Len(units))
           /\ Total(Cost(units), 1 .. k) \in Nat /\ Total(Cost(units), k + 1 .. Len(units)) \in Nat
           /\ BodyBytes(units) \in Nat
<1>1. /\ Len(units) \in Nat /\ DOMAIN units = 1 .. Len(units)
      /\ \A m \in Nat, n \in 0 .. Len(units) :
             IsFiniteSet(m + 1 .. n) /\ Amounted(Cost(units), m + 1 .. n)
  BY CostTypes
<1>2. /\ IsFiniteSet(1 .. k) /\ Amounted(Cost(units), 1 .. k)
      /\ IsFiniteSet(k + 1 .. Len(units)) /\ Amounted(Cost(units), k + 1 .. Len(units))
  <2>1. IsFiniteSet(0 + 1 .. k) /\ Amounted(Cost(units), 0 + 1 .. k)
    BY <1>1
  <2>2. 0 + 1 = 1
    OBVIOUS
  <2>3. QED
    BY <1>1, <2>1, <2>2
<1>3. 1 .. Len(units) = (1 .. k) \cup (k + 1 .. Len(units)) /\ (1 .. k) \cap (k + 1 .. Len(units)) = {}
  BY <1>1
<1>4. /\ Total(Cost(units), (1 .. k) \cup (k + 1 .. Len(units)))
           = Total(Cost(units), 1 .. k) + Total(Cost(units), k + 1 .. Len(units))
      /\ Total(Cost(units), 1 .. k) \in Nat /\ Total(Cost(units), k + 1 .. Len(units)) \in Nat
  BY <1>2, <1>3, TotalOfBoth
<1>5. BodyBytes(units) = Total(Cost(units), 1 .. Len(units))
  BY <1>1, Zenon DEF BodyBytes, Cost
<1>6. BodyBytes(units) = Total(Cost(units), (1 .. k) \cup (k + 1 .. Len(units)))
  BY <1>3, <1>5, Zenon
<1>7. QED
  BY <1>4, <1>6

\* A cut saves a byte for each unit it takes, but for three when it splits a
\* pair; a body that ends in half a pair makes up for them.
LEMMA CutSaves ==
    ASSUME NEW U, NEW units \in Seq(U), NEW k \in 0 .. Len(units), k < Len(units)
    PROVE  LET kept == SubSeq(units, 1, k)
           IN  /\ BodyBytes(kept) + (Len(units) - k) <= BodyBytes(units) + 3
               /\ ~ Splits(units, k) => BodyBytes(kept) + (Len(units) - k) <= BodyBytes(units)
               /\ units[Len(units)] = "high" =>
                      BodyBytes(kept) + (Len(units) - k) <= BodyBytes(units)
<1> DEFINE kept == SubSeq(units, 1, k)
           n == Len(units)
<1>1. /\ n \in Nat /\ DOMAIN units = 1 .. n
      /\ \A i \in 1 .. n : Cost(units)[i] \in 0 .. 6
      /\ IsFiniteSet(k + 1 .. n) /\ Amounted(Cost(units), k + 1 .. n)
  BY CostTypes
<1>2. /\ BodyBytes(kept) \in Nat /\ Total(Cost(units), 1 .. k) \in Nat
      /\ BodyBytes(kept) = Total(Cost(units), 1 .. k) + (IF Splits(units, k) THEN 2 ELSE 0)
  BY KeptCosts
<1>3. /\ BodyBytes(units) = Total(Cost(units), 1 .. k) + Total(Cost(units), k + 1 .. n)
      /\ Total(Cost(units), k + 1 .. n) \in Nat
  BY CostIsOfBothParts
<1>4. /\ Total(Cost(units), k + 1 .. n) + 1 >= n - k
      /\ ~ Splits(units, k) => Total(Cost(units), k + 1 .. n) >= n - k
  BY <1>1, UnitsCost
<1>5. ASSUME units[n] = "high" PROVE Total(Cost(units), k + 1 .. n) >= n - k + 4
  <2>1. n \in k + 1 .. n /\ (k + 1 .. n) \ {n} = k + 1 .. n - 1
    BY <1>1
  <2>2. Cost(units)[n] = 6
    BY <1>1, <1>5 DEF Cost, Bytes
  <2>3. /\ Total(Cost(units), k + 1 .. n) = Total(Cost(units), k + 1 .. n - 1) + 6
        /\ Total(Cost(units), k + 1 .. n - 1) \in Nat
    BY <1>1, <2>1, <2>2, TotalWithout
  <2>4. Total(Cost(units), k + 1 .. n - 1) + 1 >= (n - 1) - k
    <3>1. n - 1 \in Nat /\ k \in Nat /\ k <= n - 1 /\ n - 1 <= n
      BY <1>1
    <3>2. QED
      BY <3>1, UnitsCost
  <2>5. QED
    BY <1>1, <2>3, <2>4
<1>6. QED
  BY <1>1, <1>2, <1>3, <1>4, <1>5

LEMMA ClausesOfAText ==
    ASSUME NEW text \in Texts, Parses(text)
    PROVE  /\ text.clauses \in Seq(Range(text.clauses))
           /\ Len(text.clauses) \in Nat /\ DOMAIN text.clauses = 1 .. Len(text.clauses)
           /\ \A i \in DOMAIN text.clauses : text.clauses[i] \in Range(text.clauses)
<1>1. text.clauses \in Seq(Range(text.clauses))
  BY TextsAssumption DEF Parses
<1>2. Len(text.clauses) \in Nat /\ DOMAIN text.clauses = 1 .. Len(text.clauses)
  BY <1>1, LenProperties
<1>3. QED
  BY <1>1, <1>2 DEF Range

\* A clause fails exactly when what it says is broken.
LEMMA ClauseResult ==
    ASSUME NEW text \in Texts, Parses(text), NEW obs \in Observations,
           NEW i \in DOMAIN text.clauses
    PROVE  LET clause == text.clauses[i]
               result == EvaluateClause(clause, obs)
           IN  /\ result.id = clause.id
               /\ result.pass \in BOOLEAN
               /\ ~ result.pass <=> Broken(clause, obs)
<1> DEFINE clause == text.clauses[i]
           result == EvaluateClause(clause, obs)
<1>1. /\ clause.type \in {"schema", "latency", "priceRange", "semantic"}
      /\ clause.type = "latency" => clause.maxMs \in Int
      /\ clause.type = "priceRange" => clause.min.decimal /\ clause.max.decimal
  <2>1. WellFormed(clause)
    BY DEF Parses
  <2>2. \A x \in 0 .. MaxLatencyMs : x \in Int
    OBVIOUS
  <2>3. QED
    BY <2>1, <2>2, Zenon DEF WellFormed
<1>2. clause.type = "priceRange" => clause.min.units \in Int /\ clause.max.units \in Int
  BY <1>1, ClausesOfAText, TextsAssumption DEF Parses
<1>3. obs.latencyMs \in Nat /\ obs.paidAmount \in Nat
  BY ObservationsAssumption
<1>4. CASE clause.type = "schema"
  <2>1. clause.schema \in Schemas /\ obs.body \in Values
    BY <1>4, ClausesOfAText, TextsAssumption, ObservationsAssumption DEF Parses
  <2>2. Validate[<<clause.schema, obs.body>>] = Conforming <=> Conforms[<<clause.schema, obs.body>>]
    BY <2>1, ValidatorDecides
  <2>3. QED
    BY <1>4, <2>2 DEF EvaluateClause, Broken
<1>5. CASE clause.type = "latency"
  BY <1>1, <1>3, <1>5 DEF EvaluateClause, Broken
<1>6. CASE clause.type = "priceRange"
  BY <1>2, <1>3, <1>6 DEF EvaluateClause, Broken
<1>7. CASE clause.type = "semantic"
  BY <1>7 DEF EvaluateClause, Broken
<1>8. QED
  BY <1>1, <1>4, <1>5, <1>6, <1>7

\* The results of an evaluation: delivery, then the clauses in their order.
LEMMA EvaluateResults ==
    ASSUME NEW text \in Texts, Parses(text), NEW obs \in Observations
    PROVE  LET results == <<EvaluateDelivery(obs)>>
                              \o [i \in DOMAIN text.clauses |-> EvaluateClause(text.clauses[i], obs)]
           IN  /\ Len(results) = Len(text.clauses) + 1
               /\ DOMAIN results = 1 .. Len(text.clauses) + 1
               /\ results[1] = EvaluateDelivery(obs)
               /\ \A i \in DOMAIN text.clauses :
                      results[i + 1] = EvaluateClause(text.clauses[i], obs)
<1> DEFINE n == Len(text.clauses)
           U == {EvaluateDelivery(obs)} \cup {EvaluateClause(text.clauses[i], obs) : i \in 1 .. n}
           first == <<EvaluateDelivery(obs)>>
           rest == [i \in 1 .. n |-> EvaluateClause(text.clauses[i], obs)]
<1>1. n \in Nat /\ DOMAIN text.clauses = 1 .. n
  BY ClausesOfAText
<1>2. first \in Seq(U) /\ Len(first) = 1 /\ first[1] = EvaluateDelivery(obs)
  OBVIOUS
<1>3. rest \in Seq(U) /\ Len(rest) = n
  <2>1. rest \in [1 .. n -> U]
    OBVIOUS
  <2>2. QED
    BY <1>1, <2>1
<1>4. \A i \in 1 .. n : rest[i] = EvaluateClause(text.clauses[i], obs)
  OBVIOUS
<1> HIDE DEF U, first, rest, n
<1>5. /\ Len(first \o rest) = 1 + n
      /\ first \o rest \in Seq(U)
      /\ \A i \in 1 .. 1 + n : (first \o rest)[i] = IF i <= 1 THEN first[i] ELSE rest[i - 1]
  <2>1. /\ Len(first \o rest) = Len(first) + Len(rest)
        /\ first \o rest \in Seq(U)
        /\ \A i \in 1 .. Len(first) + Len(rest) :
               (first \o rest)[i] = IF i <= Len(first) THEN first[i] ELSE rest[i - Len(first)]
    BY <1>2, <1>3, ConcatProperties
  <2>2. QED
    BY <1>1, <1>2, <1>3, <2>1
<1>6. DOMAIN (first \o rest) = 1 .. n + 1
  <2>1. DOMAIN (first \o rest) = 1 .. Len(first \o rest)
    BY <1>5, LenProperties, Zenon
  <2>2. QED
    BY <1>1, <1>5, <2>1
<1>7. /\ (first \o rest)[1] = EvaluateDelivery(obs)
      /\ \A i \in 1 .. n : (first \o rest)[i + 1] = EvaluateClause(text.clauses[i], obs)
  BY <1>1, <1>2, <1>4, <1>5
<1>8. QED
  BY <1>1, <1>5, <1>6, <1>7 DEF first, rest, n

\* The clause a verdict names is the first that failed.
LEMMA FirstFailedIsNamed ==
    ASSUME NEW judgement, DOMAIN judgement.clauses \subseteq Nat
    PROVE  LET fallen == {i \in DOMAIN judgement.clauses : ~ judgement.clauses[i].pass}
           IN  /\ fallen = {} => FailedClauseOf(judgement) = NoClause
               /\ fallen # {} =>
                      \E i \in fallen : /\ \A j \in fallen : i <= j
                                        /\ FailedClauseOf(judgement) = judgement.clauses[i].id
<1> DEFINE fallen == {i \in DOMAIN judgement.clauses : ~ judgement.clauses[i].pass}
           first == CHOOSE i \in fallen : \A j \in fallen : i <= j
<1>1. fallen = {} => FailedClauseOf(judgement) = NoClause
  BY DEF FailedClauseOf
<1>2. ASSUME fallen # {}
      PROVE  first \in fallen /\ \A j \in fallen : first <= j
  <2>1. \E i \in fallen : \A j \in fallen : i <= j
    BY <1>2, SomeNumberIsLeast
  <2>2. QED
    BY <2>1
<1>3. ASSUME fallen # {} PROVE FailedClauseOf(judgement) = judgement.clauses[first].id
  BY <1>3 DEF FailedClauseOf
<1>4. QED
  BY <1>1, <1>2, <1>3

\* A response judged by a document: the verdict, and the clause it names.
LEMMA JudgedByTheDocument ==
    ASSUME NEW text \in Texts, Parses(text), NEW obs \in Observations,
           obs.status # Nothing, obs.status # PaymentRefused
    PROVE  LET judgement == Judgement(text, obs)
               delivered == obs.status < 500
               broken == {i \in DOMAIN text.clauses : Broken(text.clauses[i], obs)}
               named == FailedClauseOf(judgement)
           IN  /\ judgement.outcome = IF delivered /\ broken = {} THEN "PASS" ELSE "FAIL"
               /\ ~ delivered => named = DeliveryClauseId
               /\ delivered /\ broken = {} => named = NoClause
               /\ delivered /\ broken # {} =>
                      \E i \in broken : /\ named = text.clauses[i].id
                                        /\ \A j \in broken : i <= j
<1> DEFINE n == Len(text.clauses)
           delivery == EvaluateDelivery(obs)
           results == <<delivery>> \o [i \in DOMAIN text.clauses |-> EvaluateClause(text.clauses[i], obs)]
           judgement == Judgement(text, obs)
           fallen == {i \in DOMAIN results : ~ results[i].pass}
           broken == {i \in DOMAIN text.clauses : Broken(text.clauses[i], obs)}
           delivered == obs.status < 500
<1>1. n \in Nat /\ DOMAIN text.clauses = 1 .. n
  BY ClausesOfAText
<1>2. /\ DOMAIN results = 1 .. n + 1 /\ results[1] = delivery
      /\ \A i \in 1 .. n : results[i + 1] = EvaluateClause(text.clauses[i], obs)
  BY <1>1, EvaluateResults
<1>3. judgement = [outcome |-> IF \A i \in DOMAIN results : results[i].pass THEN "PASS" ELSE "FAIL",
                   clauses |-> results]
  BY DEF Judgement, Evaluate
<1> HIDE DEF results
<1>4. judgement.clauses = results
      /\ judgement.outcome = IF fallen = {} THEN "PASS" ELSE "FAIL"
  <2>1. fallen = {} <=> \A i \in DOMAIN results : results[i].pass
    BY Zenon
  <2>2. judgement.clauses = results
    BY <1>3
  <2>3. judgement.outcome = IF \A i \in DOMAIN results : results[i].pass THEN "PASS" ELSE "FAIL"
    BY <1>3
  <2>4. QED
    BY <2>1, <2>2, <2>3, Zenon
<1>5. delivery.id = DeliveryClauseId /\ (delivery.pass <=> delivered)
  BY ObservationsAssumption DEF EvaluateDelivery
<1>6. \A i \in 1 .. n : /\ results[i + 1].id = text.clauses[i].id
                        /\ ~ results[i + 1].pass <=> i \in broken
  BY <1>1, <1>2, ClauseResult
<1> HIDE DEF judgement, delivered, delivery, broken
<1>7. 1 \in fallen <=> ~ delivered
  BY <1>1, <1>2, <1>5
<1>8. \A i \in 1 .. n : i + 1 \in fallen <=> i \in broken
  BY <1>1, <1>2, <1>6
<1>9. fallen = {} <=> delivered /\ broken = {}
  <2>1. broken \subseteq 1 .. n
    BY <1>1 DEF broken
  <2>2. \A i \in fallen : i = 1 \/ (i - 1 \in 1 .. n /\ (i - 1) + 1 = i)
    BY <1>1, <1>2
  <2>3. QED
    BY <1>7, <1>8, <2>1, <2>2
<1>10. /\ fallen = {} => FailedClauseOf(judgement) = NoClause
       /\ fallen # {} => \E i \in fallen : /\ \A j \in fallen : i <= j
                                           /\ FailedClauseOf(judgement) = results[i].id
  <2>1. DOMAIN judgement.clauses \subseteq Nat
    BY <1>1, <1>2, <1>4
  <2>2. QED
    BY <1>4, <2>1, FirstFailedIsNamed
<1>11. ASSUME ~ delivered PROVE FailedClauseOf(judgement) = DeliveryClauseId
  <2>1. PICK i \in fallen : (\A j \in fallen : i <= j) /\ FailedClauseOf(judgement) = results[i].id
    BY <1>7, <1>10, <1>11
  <2>2. i = 1
    BY <1>1, <1>2, <1>7, <1>11, <2>1
  <2>3. QED
    BY <1>2, <1>5, <2>1, <2>2
<1>12. ASSUME delivered, broken # {}
       PROVE  \E i \in broken : /\ FailedClauseOf(judgement) = text.clauses[i].id
                                /\ \A j \in broken : i <= j
  <2>1. PICK i \in fallen : (\A j \in fallen : i <= j) /\ FailedClauseOf(judgement) = results[i].id
    BY <1>9, <1>10, <1>12
  <2>2. i - 1 \in 1 .. n /\ (i - 1) + 1 = i
    BY <1>1, <1>2, <1>7, <1>12
  <2>3. i - 1 \in broken
    BY <1>8, <2>1, <2>2
  <2>4. FailedClauseOf(judgement) = text.clauses[i - 1].id
    BY <1>6, <2>1, <2>2
  <2>5. ASSUME NEW j \in broken PROVE i - 1 <= j
    <3>1. j \in 1 .. n
      BY <1>1 DEF broken
    <3>2. j + 1 \in fallen
      BY <1>8, <3>1
    <3>3. QED
      BY <1>1, <2>1, <2>2, <3>1, <3>2
  <2>6. QED
    BY <2>3, <2>4, <2>5
<1>13. judgement.outcome = IF delivered /\ broken = {} THEN "PASS" ELSE "FAIL"
  BY <1>4, <1>9
<1>14. delivered /\ broken = {} => FailedClauseOf(judgement) = NoClause
  BY <1>9, <1>10
<1>15. QED
  BY <1>11, <1>12, <1>13, <1>14 DEF judgement, delivered, broken

\* A response judged by its status alone names no clause.
LEMMA JudgedByTheStatus ==
    ASSUME NEW text \in Texts, ~ Parses(text), NEW obs \in Observations, obs.status # PaymentRefused
    PROVE  LET judgement == Judgement(text, obs)
           IN  /\ judgement.clauses = <<>> /\ FailedClauseOf(judgement) = NoClause
               /\ judgement.outcome \in {"PASS", "FAIL", "DOWN", "none"}
               /\ judgement.outcome = "DOWN" <=> obs.status = Nothing
               /\ judgement.outcome = "PASS" => obs.status \in 200 .. 299
               /\ judgement.outcome = "FAIL" => obs.status >= 500
               /\ obs.status >= 500 => judgement.outcome = "FAIL"
<1>1. Judgement(text, obs) = EvaluateStatusOnly(obs)
  BY DEF Judgement
<1>2. obs.status \in Nat
  BY ObservationsAssumption
<1>3. /\ EvaluateStatusOnly(obs).clauses = <<>>
      /\ EvaluateStatusOnly(obs).outcome = CASE obs.status = 0 -> "DOWN"
                                             [] obs.status \in 200 .. 299 -> "PASS"
                                             [] obs.status >= 500 -> "FAIL"
                                             [] OTHER -> "none"
  BY DEF EvaluateStatusOnly, Nothing
<1>4. FailedClauseOf(Judgement(text, obs)) = NoClause
  BY <1>1, <1>3 DEF FailedClauseOf
<1> DEFINE outcome == Judgement(text, obs).outcome
<1>5. /\ obs.status = 0 => outcome = "DOWN"
      /\ obs.status \in 200 .. 299 => outcome = "PASS"
      /\ obs.status >= 500 => outcome = "FAIL"
      /\ obs.status # 0 /\ obs.status \notin 200 .. 299 /\ ~ (obs.status >= 500) => outcome = "none"
  <2>1. ASSUME obs.status = 0 PROVE outcome = "DOWN"
    BY <1>1, <1>3, <2>1
  <2>2. ASSUME obs.status \in 200 .. 299 PROVE outcome = "PASS"
    <3>1. obs.status # 0 /\ ~ (obs.status >= 500)
      BY <1>2, <2>2
    <3>2. EvaluateStatusOnly(obs).outcome = "PASS"
      BY <1>3, <2>2, <3>1
    <3>3. QED
      BY <1>1, <3>2
  <2>3. ASSUME obs.status >= 500 PROVE outcome = "FAIL"
    BY <1>1, <1>2, <1>3, <2>3
  <2>4. ASSUME obs.status # 0, obs.status \notin 200 .. 299, ~ (obs.status >= 500) PROVE outcome = "none"
    BY <1>1, <1>2, <1>3, <2>4
  <2>5. QED
    BY <2>1, <2>2, <2>3, <2>4
<1> HIDE DEF outcome
<1>6. /\ outcome \in {"PASS", "FAIL", "DOWN", "none"}
      /\ outcome = "DOWN" <=> obs.status = 0
      /\ outcome = "PASS" => obs.status \in 200 .. 299
      /\ outcome = "FAIL" => obs.status >= 500
  BY <1>2, <1>5
<1>7. QED
  BY <1>1, <1>3, <1>4, <1>5, <1>6 DEF Nothing, outcome

\* What nothing came back from is down, and a refused payment is not judged.
LEMMA NotJudgedByClauses ==
    ASSUME NEW text \in Texts, NEW obs \in Observations
    PROVE  LET judgement == Judgement(text, obs)
           IN  /\ obs.status = PaymentRefused => judgement.outcome = "none" /\ judgement.clauses = <<>>
               /\ obs.status = Nothing /\ Parses(text) =>
                      judgement.outcome = "DOWN" /\ judgement.clauses = <<EvaluateDelivery(obs)>>
BY DEF Judgement, Evaluate, Nothing, PaymentRefused

\* Every judgement is one of four, with some number of clause results.
LEMMA JudgementTypes ==
    ASSUME NEW text \in Texts, NEW obs \in Observations
    PROVE  /\ Judgement(text, obs).outcome \in {"PASS", "FAIL", "DOWN", "none"}
           /\ Len(Judgement(text, obs).clauses) \in Nat
           /\ Judgement(text, obs).outcome = "DOWN" <=> obs.status = Nothing
           /\ Judgement(text, obs).outcome \in {"PASS", "FAIL"} =>
                  obs.status # Nothing /\ obs.status # PaymentRefused
           /\ obs.status >= 500 => Judgement(text, obs).outcome = "FAIL"
<1>1. CASE obs.status = PaymentRefused
  BY <1>1, NotJudgedByClauses, ObservationsAssumption DEF Nothing, PaymentRefused
<1>2. CASE obs.status # PaymentRefused /\ ~ Parses(text)
  BY <1>2, JudgedByTheStatus, ObservationsAssumption DEF Nothing, PaymentRefused
<1>3. CASE obs.status = Nothing /\ Parses(text)
  BY <1>3, NotJudgedByClauses, ObservationsAssumption DEF Nothing, PaymentRefused
<1>4. CASE obs.status # Nothing /\ obs.status # PaymentRefused /\ Parses(text)
  <2> DEFINE results == <<EvaluateDelivery(obs)>>
                           \o [i \in DOMAIN text.clauses |-> EvaluateClause(text.clauses[i], obs)]
  <2>1. /\ Len(text.clauses) \in Nat /\ Len(results) = Len(text.clauses) + 1
        /\ DOMAIN results = 1 .. Len(text.clauses) + 1 /\ results[1] = EvaluateDelivery(obs)
    BY <1>4, ClausesOfAText, EvaluateResults
  <2>2. Judgement(text, obs) =
            [outcome |-> IF \A i \in DOMAIN results : results[i].pass THEN "PASS" ELSE "FAIL",
             clauses |-> results]
    BY <1>4 DEF Judgement, Evaluate
  <2>3. obs.status \in Nat
        /\ (EvaluateDelivery(obs).pass <=> obs.status # Nothing /\ obs.status < 500)
    BY ObservationsAssumption DEF EvaluateDelivery
  <2>4. 1 \in DOMAIN results
    BY <2>1
  <2> HIDE DEF results
  <2>5. obs.status >= 500 => Judgement(text, obs).outcome = "FAIL"
    BY <2>1, <2>2, <2>3, <2>4
  <2>6. Judgement(text, obs).outcome \in {"PASS", "FAIL"} /\ Judgement(text, obs).clauses = results
    BY <2>2
  <2>7. QED
    BY <1>4, <2>1, <2>5, <2>6
<1>5. QED
  BY <1>1, <1>2, <1>3, <1>4

-----------------------------------------------------------------------------
(***************************************************************************)
(* The verify workflow: its invariant, and what follows from it.           *)
(***************************************************************************)
\* What is read of a name was in force when the name service answered.
ReadRecords == [sla : Texts, gone : Nat, age : 0 .. MaxRead]
ReadsOK ==
    /\ reads \in [Agents -> {NoRecord} \cup ReadRecords]
    /\ \A a \in Agents : reads[a] # NoRecord => reads[a].gone <= reads[a].age

\* What the proxy keeps of a name was in force when it was read, and a tick of
\* its Ttl, or of the time the read took, has gone by for each tick since it
\* was replaced.
CacheOK ==
    \/ cache = NoRecord
    \/ /\ cache \in [sla : Texts, left : 1 .. Ttl, gone : Nat]
       /\ cache.gone + cache.left <= Ttl + MaxRead

Judgements == {Judgement(text, obs) : text \in Texts, obs \in Observations}
Bodies == UNION {Seq(Range(obs.units)) : obs \in Observations}

Reading == [phase : {"reading"}, sla : Texts, gone : Nat, age : 0 .. MaxRead]
Handling == [phase : {"handling"}, sla : Texts, gone : Nat, age : 0 .. MaxHandling]
Sent == [phase : {"sent"}, sla : Texts, gone : 0 .. Ttl + MaxRead + MaxHandling - 1]
Relayed == [phase : {"write", "finish"}, sla : Texts, obs : Observations,
            judgement : Judgements, body : Bodies,
            bodyTruncated : BOOLEAN, attempt : Nat]

\* A body that has been cut is what is left of the response.  One cut is
\* enough, unless it split a pair; then the body ends in half of it, and what
\* is still to be cut is less than that half costs.
BodyOK(c) ==
    /\ Len(c.body) <= Len(c.obs.units) /\ c.body = SubSeq(c.obs.units, 1, Len(c.body))
    /\ c.bodyTruncated <=> Len(c.body) < Len(c.obs.units)
    /\ c.attempt = 0 => ~ c.bodyTruncated
    /\ c.attempt <= 2
    /\ c.attempt > 0 /\ c.body # <<>> /\ Size(c) > Budget =>
           c.attempt = 1 /\ c.body[Len(c.body)] = "high" /\ Size(c) <= Budget + 3

CallOK ==
    /\ published \in Texts
    /\ call \in {None, Done} \cup Reading \cup Handling \cup Sent \cup Relayed
    /\ call.phase = "reading" => call.gone <= call.age
    /\ call.phase = "handling" => call.gone < Ttl + MaxRead + call.age
    /\ call.phase \in {"write", "finish"} =>
           call.judgement = Judgement(call.sla, call.obs) /\ BodyOK(call)
    /\ call.phase = "write" => call.judgement.outcome # "none"

\* A verdict says what the judgement of its document says.
VerdictOK ==
    verdict # NoVerdict =>
        /\ verdict.sla \in Texts /\ verdict.obs \in Observations
        /\ verdict.outcome = Judgement(verdict.sla, verdict.obs).outcome
        /\ verdict.outcome # "none"
        /\ verdict.failedClause = FailedClauseOf(Judgement(verdict.sla, verdict.obs))

CallInv == ReadsOK /\ CacheOK /\ CallOK /\ VerdictOK

\* The body that is relayed, and what it is part of.
LEMMA BodyOfARun ==
    ASSUME NEW c \in Relayed, BodyOK(c)
    PROVE  LET U == Range(c.obs.units)
           IN  /\ c.obs.units \in Seq(U) /\ Len(c.obs.units) \in Nat
               /\ c.body \in Seq(U) /\ Len(c.body) \in 0 .. Len(c.obs.units)
               /\ \A k \in 0 .. Len(c.body) : SubSeq(c.body, 1, k) = SubSeq(c.obs.units, 1, k)
<1> DEFINE units == c.obs.units
           U == Range(units)
           n == Len(c.body)
<1>1. units \in Seq(U) /\ Len(units) \in Nat
  BY ObservationsAssumption, LenProperties DEF Relayed
<1>2. n \in 0 .. Len(units)
  <2>1. PICK o \in Observations : c.body \in Seq(Range(o.units))
    BY DEF Relayed, Bodies
  <2>2. n \in Nat
    BY <2>1, LenProperties
  <2>3. QED
    BY <1>1, <2>2 DEF BodyOK
<1>3. c.body = SubSeq(units, 1, n)
  BY DEF BodyOK
<1>4. c.body \in Seq(U) /\ \A i \in 1 .. n : c.body[i] = units[i]
  BY <1>1, <1>2, <1>3, KeptCosts
<1>5. ASSUME NEW k \in 0 .. n PROVE SubSeq(c.body, 1, k) = SubSeq(units, 1, k)
  <2>1. k \in 0 .. Len(units)
    BY <1>1, <1>2
  <2>2. /\ SubSeq(units, 1, k) \in Seq(U) /\ Len(SubSeq(units, 1, k)) = k
        /\ \A i \in 1 .. k : SubSeq(units, 1, k)[i] = units[i]
    BY <1>1, <2>1, KeptCosts
  <2>3. /\ SubSeq(c.body, 1, k) \in Seq(U) /\ Len(SubSeq(c.body, 1, k)) = k
        /\ \A i \in 1 .. k : SubSeq(c.body, 1, k)[i] = c.body[i]
    BY <1>4, KeptCosts
  <2>4. \A i \in 1 .. k : SubSeq(c.body, 1, k)[i] = SubSeq(units, 1, k)[i]
    BY <1>2, <1>4, <2>2, <2>3
  <2>5. QED
    BY <2>2, <2>3, <2>4, SeqEqual
<1>6. QED
  BY <1>1, <1>2, <1>4, <1>5

\* The parts of a payload's size that no cut changes.
Fixed(c) == Envelope + ClauseDetail * Len(c.judgement.clauses)

LEMMA SizeOf ==
    ASSUME NEW c \in Relayed
    PROVE  /\ Fixed(c) \in Nat
           /\ Size(c) = Fixed(c) + BodyBytes(c.body) + (IF c.bodyTruncated THEN 4 ELSE 5)
<1>1. Len(c.judgement.clauses) \in Nat
  BY JudgementTypes DEF Relayed, Judgements
<1>2. \A a \in Nat, b \in Nat : a * b \in Nat
  OBVIOUS
<1>3. QED
  BY <1>1, <1>2, SizesAssumption DEF Fixed, Size

\* Two cuts are enough, wherever they fall: what the first one splits pays
\* for the second.
LEMMA CutsSuffice ==
    ASSUME NEW c \in Relayed, BodyOK(c), c.body # <<>>, Size(c) > Budget,
           NEW kept, kept = IF Size(c) - Budget > Len(c.body) THEN 0 ELSE Len(c.body) - (Size(c) - Budget),
           NEW d \in Relayed, d.obs = c.obs, d.judgement = c.judgement,
           d.body = SubSeq(c.body, 1, kept), d.bodyTruncated = TRUE, d.attempt = c.attempt + 1
    PROVE  BodyOK(d)
<1> DEFINE U == Range(c.obs.units)
           n == Len(c.body)
<1>1. /\ c.body \in Seq(U) /\ n \in 0 .. Len(c.obs.units) /\ Len(c.obs.units) \in Nat
      /\ \A k \in 0 .. n : SubSeq(c.body, 1, k) = SubSeq(c.obs.units, 1, k)
  BY BodyOfARun
<1>2. n \in Nat \ {0}
  BY <1>1, EmptySeq
<1>3. /\ Fixed(c) \in Nat /\ Fixed(d) = Fixed(c)
      /\ Size(c) = Fixed(c) + BodyBytes(c.body) + (IF c.bodyTruncated THEN 4 ELSE 5)
      /\ Size(d) = Fixed(c) + BodyBytes(d.body) + 4
  BY SizeOf DEF Fixed
<1>4. BodyBytes(c.body) \in Nat
  BY <1>1, CostIsOfBothParts
<1>5. Budget \in Nat /\ Size(c) \in Nat /\ Size(c) - Budget \in Nat \ {0}
  BY <1>3, <1>4, SizesAssumption
<1>6. kept \in 0 .. n /\ kept < n
  BY <1>2, <1>5
<1>7. /\ d.body \in Seq(U) /\ Len(d.body) = kept
      /\ \A i \in 1 .. kept : d.body[i] = c.body[i]
      /\ BodyBytes(d.body) \in Nat
  BY <1>1, <1>6, KeptCosts
<1>8. d.body = SubSeq(d.obs.units, 1, Len(d.body)) /\ Len(d.body) < Len(d.obs.units)
  BY <1>1, <1>6, <1>7
<1>9. /\ BodyBytes(d.body) + (n - kept) <= BodyBytes(c.body) + 3
      /\ ~ Splits(c.body, kept) => BodyBytes(d.body) + (n - kept) <= BodyBytes(c.body)
      /\ c.body[n] = "high" => BodyBytes(d.body) + (n - kept) <= BodyBytes(c.body)
  BY <1>1, <1>6, CutSaves
<1>10. c.attempt \in {0, 1} /\ (c.attempt = 0 => ~ c.bodyTruncated)
       /\ (c.attempt = 1 => c.body[n] = "high")
  BY DEF BodyOK, Relayed
<1>11. ASSUME d.body # <<>>
       PROVE  /\ kept >= 1 /\ n - kept = Size(c) - Budget
  <2>1. kept # 0
    BY <1>7, <1>11, EmptySeq
  <2>2. QED
    BY <1>2, <1>5, <1>6, <2>1
<1>12. ASSUME d.body # <<>>, Size(d) > Budget
       PROVE  d.attempt = 1 /\ d.body[Len(d.body)] = "high" /\ Size(d) <= Budget + 3
  <2>1. \A f \in Nat, x \in Nat, y \in Nat, b \in Nat, flag \in {4, 5}, e \in {0, 3} :
            y + ((f + x + flag) - b) <= x + e => f + y + 4 <= b + e
    OBVIOUS
  <2>2. PICK flag \in {4, 5} : Size(c) = Fixed(c) + BodyBytes(c.body) + flag
    BY <1>3
  <2>3. n - kept = (Fixed(c) + BodyBytes(c.body) + flag) - Budget
    BY <1>11, <1>12, <2>2
  <2>4. \A e \in {0, 3} : BodyBytes(d.body) + (n - kept) <= BodyBytes(c.body) + e
                              => Size(d) <= Budget + e
    <3>1. /\ Fixed(c) \in Nat /\ Budget \in Nat
          /\ BodyBytes(c.body) \in Nat /\ BodyBytes(d.body) \in Nat
      BY <1>3, <1>4, <1>7, SizesAssumption
    <3>2. Size(d) = Fixed(c) + BodyBytes(d.body) + 4
      BY <1>3
    <3>3. \A e \in {0, 3} : BodyBytes(d.body) + ((Fixed(c) + BodyBytes(c.body) + flag) - Budget)
                                <= BodyBytes(c.body) + e
                            => Fixed(c) + BodyBytes(d.body) + 4 <= Budget + e
      BY <2>1, <3>1
    <3>4. QED
      BY <2>3, <3>2, <3>3
  <2>5. ~ (BodyBytes(d.body) + (n - kept) <= BodyBytes(c.body))
    <3>1. Size(d) \in Nat
      BY <1>3, <1>7
    <3>2. BodyBytes(d.body) + (n - kept) <= BodyBytes(c.body) => Size(d) <= Budget
      BY <1>4, <1>5, <2>4
    <3>3. QED
      BY <1>5, <1>12, <3>1, <3>2
  <2>6. c.attempt = 0 /\ Splits(c.body, kept)
    BY <1>9, <1>10, <2>5
  <2>7. d.body[kept] = "high" /\ Len(d.body) = kept
    BY <1>6, <1>7, <1>11, <1>12, <2>6 DEF Splits
  <2>8. Size(d) <= Budget + 3
    BY <1>9, <2>4
  <2>9. d.attempt = 1
    BY <2>6
  <2>10. d.body[Len(d.body)] = "high"
    BY <2>7, Zenon
  <2>11. QED
    BY <2>8, <2>9, <2>10, Zenon
<1>13. d.attempt \in {1, 2}
  BY <1>10
<1>14. QED
  BY <1>1, <1>6, <1>7, <1>8, <1>12, <1>13 DEF BodyOK

LEMMA RunTypes ==
    ASSUME CallOK
    PROVE  /\ call.phase = "reading" => call \in Reading
           /\ call.phase = "handling" => call \in Handling
           /\ call.phase = "sent" => call \in Sent
           /\ call.phase \in {"write", "finish"} => call \in Relayed
<1>1. None.phase = "none" /\ Done.phase = "done"
  BY DEF None, Done
<1>2. /\ \A c \in Reading : c.phase = "reading"
      /\ \A c \in Handling : c.phase = "handling"
      /\ \A c \in Sent : c.phase = "sent"
      /\ \A c \in Relayed : c.phase \in {"write", "finish"}
  BY DEF Reading, Handling, Sent, Relayed
<1>3. QED
  BY <1>1, <1>2 DEF CallOK

LEMMA CallInitInv ==
    ASSUME CallInit
    PROVE  CallInv
BY DEF CallInit, CallInv, ReadsOK, CacheOK, CallOK, VerdictOK, None

LEMMA PublishSlaInv ==
    ASSUME CallInv, NEW text \in Texts, PublishSla(text)
    PROVE  CallInv'
<1>1. CacheOK'
  BY TextsAssumption DEF CallInv, CacheOK, PublishSla, InForce
<1>2. ReadsOK'
  <2>1. ASSUME NEW a \in Agents
        PROVE  /\ InForce(reads[a], text) \in {NoRecord} \cup ReadRecords
               /\ InForce(reads[a], text) # NoRecord =>
                      InForce(reads[a], text).gone <= InForce(reads[a], text).age
    BY TextsAssumption DEF CallInv, ReadsOK, ReadRecords, InForce
  <2>2. QED
    BY <2>1 DEF ReadsOK, PublishSla
<1>3. CASE Waiting
  <2>1. call' = call \/ call' = [call EXCEPT !.gone = 0]
    BY <1>3 DEF PublishSla, InForce
  <2>2. CallOK'
    BY <1>3, <2>1, RunTypes, TextsAssumption
    DEF CallInv, CallOK, PublishSla, Waiting, Reading, Handling
  <2>3. QED
    BY <1>1, <1>2, <2>2 DEF CallInv, VerdictOK, PublishSla
<1>4. CASE ~Waiting
  BY <1>1, <1>2, <1>4 DEF CallInv, CallOK, VerdictOK, PublishSla, BodyOK, Size
<1>5. QED
  BY <1>3, <1>4

LEMMA ReadsInv ==
    ASSUME CallInv, NEW a \in Agents, Resolve(a) \/ Keep(a) \/ ReadFails(a)
    PROVE  CallInv'
<1> USE TextsAssumption
<1>1. published \in Texts
  BY DEF CallInv, CallOK
<1>2. CASE Resolve(a)
  <2>1. ReadsOK' /\ CacheOK'
    BY <1>1, <1>2 DEF CallInv, ReadsOK, CacheOK, ReadRecords, Resolve, Hit
  <2>2. QED
    BY <1>2, <2>1 DEF CallInv, CallOK, VerdictOK, Resolve, BodyOK, Size
<1>3. CASE Keep(a)
  <2>1. reads[a] \in ReadRecords /\ reads[a].gone <= reads[a].age
    BY <1>3 DEF CallInv, ReadsOK, Keep
  <2>2. CacheOK'
    BY <1>3, <2>1 DEF CacheOK, ReadRecords, Keep
  <2>3. ReadsOK'
    BY <1>3 DEF CallInv, ReadsOK, Keep
  <2>4. QED
    BY <1>3, <2>2, <2>3 DEF CallInv, CallOK, VerdictOK, Keep, BodyOK, Size
<1>4. CASE ReadFails(a)
  BY <1>4 DEF CallInv, ReadsOK, CacheOK, CallOK, VerdictOK, ReadFails, BodyOK, Size
<1>5. QED
  BY <1>2, <1>3, <1>4

LEMMA RequestInv ==
    ASSUME CallInv, Request
    PROVE  CallInv'
<1> USE TextsAssumption
<1>1. published \in Texts
  BY DEF CallInv, CallOK
<1>2. ReadsOK' /\ CacheOK'
  BY DEF ReadsOK, CacheOK, Request
<1>3. /\ call' \in Reading \cup Handling
      /\ call'.phase = "reading" => call'.gone <= call'.age
      /\ call'.phase = "handling" => call'.gone < Ttl + MaxRead + call'.age
  <2>1. CASE cache = NoRecord
    BY <1>1, <2>1 DEF Request, Reading
  <2>2. CASE cache # NoRecord
    <3>1. /\ cache.sla \in Texts /\ cache.gone \in Nat
          /\ cache.gone < Ttl + MaxRead
      BY <2>2 DEF CallInv, CacheOK
    <3>2. QED
      BY <2>2, <3>1 DEF Request, Handling
  <2>3. QED
    BY <2>1, <2>2
<1>4. CallOK'
  BY <1>1, <1>3 DEF CallOK, Request, Reading, Handling
<1>5. QED
  BY <1>2, <1>4 DEF CallInv, VerdictOK, Request

LEMMA ResolvedInv ==
    ASSUME CallInv, Resolved
    PROVE  CallInv'
<1>1. call \in Reading /\ call.gone <= call.age
  BY RunTypes DEF CallInv, CallOK, Resolved
<1>2. call' \in Handling /\ call'.gone = call.gone /\ call'.age = 0
  <2>1. call' = [phase |-> "handling", sla |-> call.sla, gone |-> call.gone, age |-> 0]
    BY <1>1 DEF Resolved, Reading
  <2>2. call.sla \in Texts /\ call.gone \in Nat /\ 0 \in 0 .. MaxHandling
    BY <1>1, TextsAssumption DEF Reading
  <2>3. QED
    BY <2>1, <2>2 DEF Handling
<1>2a. call'.gone < Ttl + MaxRead + call'.age
  BY <1>1, <1>2, TextsAssumption DEF Reading
<1>3. CallOK'
  BY <1>2, <1>2a DEF CallInv, CallOK, Resolved, Handling
<1>4. QED
  BY <1>3 DEF CallInv, ReadsOK, CacheOK, VerdictOK, Resolved

LEMMA RefusedInv ==
    ASSUME CallInv, Refused
    PROVE  CallInv'
BY DEF CallInv, ReadsOK, CacheOK, CallOK, VerdictOK, Refused, Done

LEMMA TickInv ==
    ASSUME CallInv, Tick
    PROVE  CallInv'
<1> USE TextsAssumption
<1>1. CacheOK'
  <2>1. CASE cache = NoRecord \/ cache.left = 1
    BY <2>1 DEF CacheOK, Tick
  <2>2. CASE ~(cache = NoRecord \/ cache.left = 1)
    <3>1. /\ cache \in [sla : Texts, left : 1 .. Ttl, gone : Nat]
          /\ cache.gone + cache.left <= Ttl + MaxRead
      BY <2>2 DEF CallInv, CacheOK
    <3>2. PICK gone \in {0, cache.gone + 1} :
              cache' = [cache EXCEPT !.left = cache.left - 1, !.gone = gone]
      BY <2>2 DEF Tick, Gone
    <3>3. cache.left - 1 \in 1 .. Ttl /\ gone \in Nat
      BY <2>2, <3>1, <3>2
    <3>4. cache' \in [sla : Texts, left : 1 .. Ttl, gone : Nat]
      BY <3>1, <3>2, <3>3
    <3>5. cache'.left = cache.left - 1 /\ cache'.gone = gone
      BY <3>1, <3>2
    <3>6. QED
      BY <3>1, <3>2, <3>4, <3>5 DEF CacheOK
  <2>3. QED
    BY <2>1, <2>2
<1>2. ReadsOK'
  <2>1. ASSUME NEW a \in Agents, reads[a] # NoRecord
        PROVE  Aged(reads[a]) \in ReadRecords /\ Aged(reads[a]).gone <= Aged(reads[a]).age
    <3>1. /\ reads[a] \in ReadRecords /\ reads[a].gone <= reads[a].age
          /\ reads[a].age < MaxRead
      BY <2>1 DEF CallInv, ReadsOK, Tick
    <3>2. /\ Gone(reads[a]) \in Nat /\ Gone(reads[a]) <= reads[a].gone + 1
          /\ reads[a].age + 1 \in 0 .. MaxRead
      BY <3>1 DEF Gone, ReadRecords
    <3>3. /\ Aged(reads[a]) \in ReadRecords
          /\ Aged(reads[a]).gone = Gone(reads[a]) /\ Aged(reads[a]).age = reads[a].age + 1
      BY <3>1, <3>2 DEF Aged, ReadRecords
    <3>4. QED
      BY <3>1, <3>2, <3>3 DEF ReadRecords
  <2>2. QED
    BY <2>1 DEF ReadsOK, Tick
<1>3. CASE Waiting
  <2>1. call \in Reading \cup Handling
    BY <1>3, RunTypes DEF CallInv, Waiting
  <2>2. Gone(call) \in Nat /\ Gone(call) <= call.gone + 1
    BY <2>1 DEF Gone, Reading, Handling
  <2>3. call' = [call EXCEPT !.age = call.age + 1, !.gone = Gone(call)]
    BY <1>3 DEF Tick, Aged
  <2>4. CallOK'
    <3>1. CASE call \in Reading
      <4>1. call.gone <= call.age /\ call.age + 1 \in 0 .. MaxRead
        BY <3>1 DEF CallInv, CallOK, Tick, Reading
      <4>2. call' \in Reading /\ call'.gone = Gone(call) /\ call'.age = call.age + 1
        BY <2>2, <2>3, <3>1, <4>1 DEF Reading
      <4>3. call'.gone <= call'.age
        BY <2>2, <3>1, <4>1, <4>2 DEF Reading
      <4>4. QED
        BY <4>2, <4>3 DEF CallInv, CallOK, Tick, Reading
    <3>2. CASE call \in Handling
      <4>1. call.gone < Ttl + MaxRead + call.age /\ call.age + 1 \in 0 .. MaxHandling
        BY <3>2 DEF CallInv, CallOK, Tick, Handling
      <4>2. call' \in Handling /\ call'.gone = Gone(call) /\ call'.age = call.age + 1
        BY <2>2, <2>3, <3>2, <4>1 DEF Handling
      <4>3. call'.gone < Ttl + MaxRead + call'.age
        BY <2>2, <3>2, <4>1, <4>2 DEF Handling
      <4>4. QED
        BY <4>2, <4>3 DEF CallInv, CallOK, Tick, Handling
    <3>3. QED
      BY <2>1, <3>1, <3>2
  <2>5. QED
    BY <1>1, <1>2, <2>4 DEF CallInv, VerdictOK, Tick
<1>4. CASE ~Waiting
  BY <1>1, <1>2, <1>4 DEF CallInv, CallOK, VerdictOK, Tick, None
<1>5. QED
  BY <1>3, <1>4

LEMMA TriggerInv ==
    ASSUME CallInv, Trigger
    PROVE  CallInv'
<1>1. call \in Handling /\ call.gone < Ttl + MaxRead + call.age
  BY RunTypes DEF CallInv, CallOK, Trigger
<1>2. call' \in Sent
  BY <1>1, TextsAssumption DEF Trigger, Handling, Sent
<1>3. CallOK'
  BY <1>2 DEF CallInv, CallOK, Trigger, Sent
<1>4. QED
  BY <1>3 DEF CallInv, ReadsOK, CacheOK, VerdictOK, Trigger

LEMMA ReplayInv ==
    ASSUME CallInv, NEW obs \in Observations, Replay(obs)
    PROVE  CallInv'
<1> DEFINE judgement == Judgement(call.sla, obs)
           next == [phase |-> IF judgement.outcome = "none" THEN "finish" ELSE "write",
                    sla |-> call.sla, obs |-> obs, judgement |-> judgement,
                    body |-> obs.units, bodyTruncated |-> FALSE, attempt |-> 0]
<1>1. call.sla \in Texts
  BY RunTypes DEF CallInv, Replay, Sent
<1>2. call' = next
  BY DEF Replay
<1>3. obs.units \in Seq(Range(obs.units)) /\ Len(obs.units) \in Nat
  BY ObservationsAssumption, LenProperties
<1>4. next \in Relayed
  <2>1. judgement \in Judgements /\ obs.units \in Bodies
    BY <1>1, <1>3 DEF Judgements, Bodies
  <2>2. QED
    BY <1>1, <2>1 DEF Relayed
<1>5. SubSeq(obs.units, 1, Len(obs.units)) = obs.units
  BY <1>3, SubSeqFull
<1>6. BodyOK(next)
  BY <1>3, <1>5 DEF BodyOK
<1>7. /\ next.judgement = Judgement(next.sla, next.obs)
      /\ next.phase = "write" => next.judgement.outcome # "none"
  OBVIOUS
<1>7a. next.phase \in {"finish", "write"}
  OBVIOUS
<1> HIDE DEF next
<1>8. CallOK'
  BY <1>2, <1>4, <1>6, <1>7, <1>7a DEF CallInv, CallOK, Replay
<1>9. QED
  BY <1>8 DEF CallInv, ReadsOK, CacheOK, VerdictOK, Replay

LEMMA WriteInv ==
    ASSUME CallInv, Write
    PROVE  CallInv'
<1>1. call \in Relayed /\ call.phase = "write"
  BY RunTypes DEF CallInv, Write
<1>2. /\ call' \in Relayed /\ call'.phase = "finish"
      /\ call'.sla = call.sla /\ call'.obs = call.obs /\ call'.judgement = call.judgement
      /\ call'.body = call.body /\ call'.bodyTruncated = call.bodyTruncated
      /\ call'.attempt = call.attempt
  BY <1>1 DEF Write, Relayed
<1>3. BodyOK(call)'
  BY <1>1, <1>2 DEF CallInv, CallOK, BodyOK, Size
<1>4. CallOK'
  BY <1>1, <1>2, <1>3 DEF CallInv, CallOK, Write
<1>5. call.sla \in Texts /\ call.obs \in Observations
      /\ call.judgement = Judgement(call.sla, call.obs) /\ call.judgement.outcome # "none"
  BY <1>1 DEF CallInv, CallOK, Relayed
<1>6. VerdictOK'
  <2>1. CASE verdict' = verdict
    BY <2>1 DEF CallInv, VerdictOK
  <2>2. CASE verdict' = Report
    BY <1>5, <2>2 DEF VerdictOK, Report
  <2>3. QED
    BY <2>1, <2>2 DEF Write
<1>7. QED
  BY <1>4, <1>6 DEF CallInv, ReadsOK, CacheOK, Write

LEMMA TrimInv ==
    ASSUME CallInv, Trim
    PROVE  CallInv'
<1> DEFINE over == Size(call) - Budget
           kept == IF over > Len(call.body) THEN 0 ELSE Len(call.body) - over
<1>1. call \in Relayed /\ call.phase = "finish" /\ BodyOK(call)
      /\ Size(call) > Budget /\ call.body # <<>>
  BY RunTypes DEF CallInv, CallOK, Trim, TooLarge
<1>2. call' = [call EXCEPT !.body = SubSeq(@, 1, kept), !.bodyTruncated = TRUE, !.attempt = @ + 1]
  BY DEF Trim
<1>3. SubSeq(call.body, 1, kept) \in Bodies
  <2>1. /\ call.body \in Seq(Range(call.obs.units)) /\ Len(call.body) \in Nat
    BY <1>1, BodyOfARun
  <2>2. Size(call) \in Nat
    <3>1. BodyBytes(call.body) \in Nat
      BY <2>1, CostIsOfBothParts
    <3>2. QED
      BY <1>1, <3>1, SizeOf
  <2>3. kept \in 0 .. Len(call.body)
    BY <1>1, <2>1, <2>2, SizesAssumption
  <2>4. SubSeq(call.body, 1, kept) \in Seq(Range(call.obs.units))
    BY <2>1, <2>3, KeptCosts
  <2>5. QED
    BY <1>1, <2>4 DEF Relayed, Bodies
<1> HIDE DEF kept
<1>3a. PICK b \in Bodies : b = SubSeq(call.body, 1, kept)
  BY <1>3
<1>3b. call' = [call EXCEPT !.body = b, !.bodyTruncated = TRUE, !.attempt = call.attempt + 1]
  BY <1>2, <1>3a
<1>4. /\ call' \in Relayed /\ call'.phase = "finish"
      /\ call'.sla = call.sla /\ call'.obs = call.obs /\ call'.judgement = call.judgement
      /\ call'.body = SubSeq(call.body, 1, kept) /\ call'.bodyTruncated = TRUE
      /\ call'.attempt = call.attempt + 1
  <2> DEFINE next == [call EXCEPT !.body = b, !.bodyTruncated = TRUE, !.attempt = call.attempt + 1]
  <2>1. call.attempt + 1 \in Nat /\ call.phase = "finish"
    BY <1>1 DEF Relayed
  <2>2. next \in Relayed
    BY <1>1, <1>3a, <2>1 DEF Relayed
  <2>3. next.phase = "finish" /\ next.sla = call.sla /\ next.obs = call.obs
    BY <1>1 DEF Relayed
  <2>4. next.judgement = call.judgement /\ next.body = b
    BY <1>1 DEF Relayed
  <2>5. next.bodyTruncated = TRUE /\ next.attempt = call.attempt + 1
    BY <1>1 DEF Relayed
  <2>6. QED
    BY <1>3a, <1>3b, <2>2, <2>3, <2>4, <2>5, Zenon
<1>5. BodyOK(call')
  BY <1>1, <1>4, CutsSuffice DEF kept
<1>6. CallOK'
  BY <1>1, <1>4, <1>5 DEF CallInv, CallOK, Trim
<1>7. QED
  BY <1>6 DEF CallInv, ReadsOK, CacheOK, VerdictOK, Trim

LEMMA PushInv ==
    ASSUME CallInv, Push
    PROVE  CallInv'
BY DEF CallInv, ReadsOK, CacheOK, CallOK, VerdictOK, Push, Done

\* Every step keeps the invariant.
LEMMA CallStepInv ==
    ASSUME CallInv, [CallNext]_callVars
    PROVE  CallInv'
<1>1. CASE UNCHANGED callVars
  BY <1>1 DEF callVars, CallInv, ReadsOK, CacheOK, CallOK, VerdictOK, BodyOK, Size
<1>2. CASE CallNext
  BY <1>2, PublishSlaInv, ReadsInv, RequestInv, ResolvedInv, RefusedInv, TickInv, TriggerInv,
     ReplayInv, WriteInv, TrimInv, PushInv DEF CallNext
<1>3. QED
  BY <1>1, <1>2

\* The reads, the cached record, the call and the verdict agree in every
\* state with the documents they come from, whatever the provider edits.
THEOREM CallCorrect == CallSpec => []CallInv
BY CallInitInv, CallStepInv, PTL DEF CallSpec

\* A call carries an SLA that was in force less than a Ttl, one read of the
\* name and its own handling ago, for any Ttl and however long these take, and
\* however often the cached record was answered with or overwritten.
THEOREM SlasAreRecent == CallSpec => []JudgedUnderARecentSla
<1>1. ASSUME CallInv PROVE JudgedUnderARecentSla
  BY <1>1, RunTypes, TextsAssumption DEF CallInv, JudgedUnderARecentSla, Sent
<1>2. QED
  BY <1>1, CallCorrect, PTL

\* A verdict is of the document its call carried, whatever has been published
\* since.
THEOREM VerdictsAreOfTheDocument == CallSpec => []VerdictIsOfTheDocument
<1>1. ASSUME CallInv PROVE VerdictIsOfTheDocument
  <2> SUFFICES ASSUME verdict # NoVerdict PROVE VerdictIsOfTheDocument
    BY DEF VerdictIsOfTheDocument
  <2> DEFINE obs == verdict.obs
             text == verdict.sla
             judgement == Judgement(text, obs)
             delivered == obs.status < 500
             broken == {i \in DOMAIN text.clauses : Broken(text.clauses[i], obs)}
  <2>1. /\ text \in Texts /\ obs \in Observations /\ obs.status \in Nat
        /\ verdict.outcome = judgement.outcome /\ judgement.outcome # "none"
        /\ verdict.failedClause = FailedClauseOf(judgement)
    BY <1>1, ObservationsAssumption DEF CallInv, VerdictOK
  <2>2. /\ judgement.outcome = "DOWN" <=> obs.status = Nothing
        /\ obs.status # PaymentRefused
    BY <2>1, JudgementTypes, NotJudgedByClauses
  <2>3. ASSUME Parses(text), obs.status # Nothing
        PROVE  /\ (verdict.outcome = "PASS") <=> (delivered /\ broken = {})
               /\ (verdict.failedClause = DeliveryClauseId) <=> ~ delivered
               /\ verdict.outcome = "FAIL" /\ delivered =>
                      \E i \in broken : /\ verdict.failedClause = text.clauses[i].id
                                        /\ \A j \in broken : i <= j
    <3>1. /\ judgement.outcome = IF delivered /\ broken = {} THEN "PASS" ELSE "FAIL"
          /\ ~ delivered => FailedClauseOf(judgement) = DeliveryClauseId
          /\ delivered /\ broken = {} => FailedClauseOf(judgement) = NoClause
          /\ delivered /\ broken # {} =>
                 \E i \in broken : /\ FailedClauseOf(judgement) = text.clauses[i].id
                                   /\ \A j \in broken : i <= j
      BY <2>1, <2>2, <2>3, JudgedByTheDocument
    <3>2. \A i \in broken : text.clauses[i].id # DeliveryClauseId
      BY <2>3 DEF Parses
    <3> HIDE DEF broken, delivered
    <3>3. NoClause # DeliveryClauseId
      BY DEF NoClause, DeliveryClauseId
    <3>4. QED
      BY <2>1, <3>1, <3>2, <3>3
  <2>4. ASSUME ~ Parses(text)
        PROVE  /\ verdict.failedClause = NoClause
               /\ (verdict.outcome = "PASS") => obs.status \in 200 .. 299
               /\ (verdict.outcome = "FAIL") => obs.status >= 500
    BY <2>1, <2>2, <2>4, JudgedByTheStatus
  <2>5. QED
    BY <2>1, <2>2, <2>3, <2>4 DEF VerdictIsOfTheDocument
<1>2. QED
  BY <1>1, CallCorrect, PTL

\* No document earns a PASS for what the status alone fails, nor a refund for
\* a payment that was refused.
THEOREM NeverMoreLenient == CallSpec => []NoMoreLenientThanFallback
<1>1. ASSUME CallInv PROVE NoMoreLenientThanFallback
  <2> SUFFICES ASSUME call.phase \in {"write", "finish"}
               PROVE  /\ Judgement(Unset, call.obs).outcome \in {"FAIL", "DOWN"} =>
                             call.judgement.outcome \in {"FAIL", "DOWN"}
                      /\ call.obs.status = PaymentRefused => call.judgement.outcome = "none"
    BY DEF NoMoreLenientThanFallback
  <2>1. /\ call.sla \in Texts /\ call.obs \in Observations
        /\ call.judgement = Judgement(call.sla, call.obs)
    BY <1>1, RunTypes DEF CallInv, CallOK, Relayed
  <2>2. Unset \in Texts /\ ~ Parses(Unset)
    BY TextsAssumption DEF Unset, Parses
  <2>3. call.obs.status # PaymentRefused =>
            /\ Judgement(Unset, call.obs).outcome = "FAIL" => call.obs.status >= 500
            /\ Judgement(Unset, call.obs).outcome = "DOWN" => call.obs.status = Nothing
    BY <2>1, <2>2, JudgedByTheStatus
  <2>4. call.obs.status = PaymentRefused =>
            Judgement(Unset, call.obs).outcome = "none" /\ call.judgement.outcome = "none"
    BY <2>1, <2>2, NotJudgedByClauses
  <2>5. /\ call.obs.status >= 500 => call.judgement.outcome = "FAIL"
        /\ call.obs.status = Nothing => call.judgement.outcome = "DOWN"
    BY <2>1, JudgementTypes
  <2>6. QED
    BY <2>3, <2>4, <2>5
<1>2. QED
  BY <1>1, CallCorrect, PTL

\* A reader of a FAIL is led to one clause of the SLA it was judged under,
\* which is broken; only an edit makes the clause unknown.
THEOREM ReadersAreLedToTheClause == CallSpec => []ReaderIsLedToTheClause
<1>1. ASSUME CallInv, VerdictIsOfTheDocument PROVE ReaderIsLedToTheClause
  <2> SUFFICES ASSUME verdict # NoVerdict, verdict.outcome = "FAIL",
                      verdict.failedClause \notin {NoClause, DeliveryClauseId},
                      published = verdict.sla
               PROVE  LET named == Matched(verdict.failedClause, published)
                          declared == {c \in Range(published.clauses) : c.id = named}
                      IN  /\ \E c \in declared :
                                 /\ Broken(c, verdict.obs)
                                 /\ Cardinality({i \in DOMAIN published.clauses :
                                                     published.clauses[i].id = named}) = 1
                          /\ ~ (named = "unknown" /\ verdict.failedClause # named)
    BY DEF ReaderIsLedToTheClause
  <2> DEFINE text == verdict.sla
             obs == verdict.obs
             id == verdict.failedClause
             broken == {i \in DOMAIN text.clauses : Broken(text.clauses[i], obs)}
  <2>1. text \in Texts /\ obs \in Observations
    BY <1>1 DEF CallInv, VerdictOK
  <2>2. Parses(text)
    BY <1>1 DEF VerdictIsOfTheDocument
  <2>3. obs.status # Nothing /\ obs.status < 500
    BY <1>1, <2>2 DEF VerdictIsOfTheDocument
  <2>4. PICK i \in broken : id = text.clauses[i].id
    BY <1>1, <2>2, <2>3 DEF VerdictIsOfTheDocument
  <2>5. /\ DOMAIN text.clauses = 1 .. Len(text.clauses) /\ Len(text.clauses) \in Nat
        /\ text.clauses[i] \in Range(text.clauses)
    BY <2>1, <2>2, ClausesOfAText
  <2>6. Matched(id, text) = id
    BY <2>2, <2>4, <2>5 DEF Matched
  <2>7. {j \in DOMAIN text.clauses : text.clauses[j].id = id} = {i}
    <3>1. \A j \in DOMAIN text.clauses : \A k \in 1 .. j - 1 : text.clauses[k].id # text.clauses[j].id
      BY <2>2 DEF Parses
    <3>2. ASSUME NEW j \in DOMAIN text.clauses, text.clauses[j].id = id PROVE j = i
      <4>1. i \in 1 .. Len(text.clauses) /\ j \in 1 .. Len(text.clauses)
        BY <2>5, <3>2
      <4>2. j < i => j \in 1 .. i - 1
        BY <4>1
      <4>3. i < j => i \in 1 .. j - 1
        BY <4>1
      <4>4. ~ (j < i) /\ ~ (i < j)
        BY <2>4, <2>5, <3>1, <3>2, <4>1, <4>2, <4>3, Zenon
      <4>5. QED
        BY <2>5, <4>1, <4>4
    <3>3. QED
      BY <2>4, <3>2
  <2>8. Cardinality({j \in DOMAIN text.clauses : text.clauses[j].id = id}) = 1
    BY <2>7, FS_Singleton, Zenon
  <2>9. Broken(text.clauses[i], obs)
    OBVIOUS
  <2>10. QED
    BY <2>4, <2>5, <2>6, <2>8, <2>9
<1>2. QED
  BY <1>1, CallCorrect, VerdictsAreOfTheDocument, PTL

\* Responses that differ only in the order of their members get the same report
\* of every schema in the document.
THEOREM OrderOfMembersIsIgnored == CallSpec => []ReportsIgnoreMemberOrder
<1>1. ASSUME CallInv PROVE ReportsIgnoreMemberOrder
  <2> SUFFICES ASSUME call.phase \in {"write", "finish"}, Parses(call.sla),
                      NEW clause \in {c \in Range(call.sla.clauses) : c.type = "schema"},
                      NEW other \in {o \in Observations : Reordered(o.body, call.obs.body)}
               PROVE  Validate[<<clause.schema, other.body>>] = Validate[<<clause.schema, call.obs.body>>]
    BY DEF ReportsIgnoreMemberOrder
  <2>1. call.sla \in Texts /\ call.obs \in Observations
    BY <1>1, RunTypes DEF CallInv, CallOK, Relayed
  <2>2. clause.schema \in Schemas
    BY <2>1, TextsAssumption DEF Parses
  <2>3. other.body \in Values /\ call.obs.body \in Values
    BY <2>1, ObservationsAssumption
  <2>4. DeepEqual[<<other.body, call.obs.body>>]
    BY DEF Reordered
  <2>5. QED
    BY <2>2, <2>3, <2>4, ReportsAreOfTheValue
<1>2. QED
  BY <1>1, CallCorrect, PTL

\* What is relayed fits the budget whenever the envelope does, for any body,
\* any budget and wherever the cuts fall.
THEOREM PayloadsFit == CallSpec => []RelayFits
<1>1. ASSUME CallInv PROVE RelayFits
  <2> SUFFICES ASSUME call.phase = "finish"
               PROVE  /\ ~ TooLarge /\ Size([call EXCEPT !.body = <<>>, !.bodyTruncated = FALSE]) <= Budget
                             => Size(call) <= Budget
                      /\ IsPrefix(call.body, call.obs.units)
                      /\ call.bodyTruncated <=> call.body # call.obs.units
    BY DEF RelayFits
  <2> DEFINE bare == [call EXCEPT !.body = <<>>, !.bodyTruncated = FALSE]
             U == Range(call.obs.units)
  <2>1. call \in Relayed /\ BodyOK(call)
    BY <1>1, RunTypes DEF CallInv, CallOK
  <2>2. /\ call.obs.units \in Seq(U) /\ Len(call.obs.units) \in Nat
        /\ call.body \in Seq(U) /\ Len(call.body) \in 0 .. Len(call.obs.units)
        /\ call.body = SubSeq(call.obs.units, 1, Len(call.body))
    BY <2>1, BodyOfARun DEF BodyOK
  <2>3. SubSeq(call.body, 1, Len(call.body)) = call.body
    BY <2>2, SubSeqFull
  <2>4. IsPrefix(call.body, call.obs.units)
    BY <2>2, <2>3 DEF IsPrefix
  <2>5. call.bodyTruncated <=> call.body # call.obs.units
    <3>1. SubSeq(call.obs.units, 1, Len(call.obs.units)) = call.obs.units
      BY <2>2, SubSeqFull
    <3>2. Len(call.body) = Len(call.obs.units) => call.body = call.obs.units
      BY <2>2, <3>1
    <3>3. call.bodyTruncated \in BOOLEAN /\ (call.bodyTruncated <=> Len(call.body) < Len(call.obs.units))
      BY <2>1 DEF BodyOK, Relayed
    <3>4. QED
      BY <2>2, <3>2, <3>3
  <2>6. ASSUME ~ TooLarge, Size(bare) <= Budget PROVE Size(call) <= Budget
    <3>1. BodyBytes(call.body) \in Nat
      BY <2>2, CostIsOfBothParts
    <3>2. /\ Fixed(call) \in Nat
          /\ Size(call) = Fixed(call) + BodyBytes(call.body) + (IF call.bodyTruncated THEN 4 ELSE 5)
      BY <2>1, SizeOf
    <3>3. BodyBytes(<<>>) = 0
      <4>1. Total(Cost(<<>>), {}) = 0
        BY TotalOfNobody
      <4>2. DOMAIN <<>> = {}
        BY SMT
      <4>3. QED
        BY <4>1, <4>2, Zenon DEF BodyBytes, Cost
    <3>4. Size(bare) = Fixed(call) + 0 + 5
      <4>1. bare.judgement = call.judgement /\ bare.body = <<>> /\ bare.bodyTruncated = FALSE
        BY <2>1 DEF Relayed
      <4>2. QED
        BY <3>2, <3>3, <4>1 DEF Size, Fixed
    <3>5. CASE call.body = <<>>
      BY <2>6, <3>2, <3>3, <3>4, <3>5, SizesAssumption
    <3>6. CASE call.body # <<>>
      <4>1. call.attempt \in Nat /\ call.attempt <= 2
        BY <2>1 DEF BodyOK, Relayed
      <4>2. QED
        BY <2>6, <3>1, <3>2, <3>6, <4>1, SizesAssumption DEF TooLarge, FitAttempts
    <3>7. QED
      BY <3>5, <3>6
  <2>7. QED
    BY <2>4, <2>5, <2>6
<1>2. QED
  BY <1>1, CallCorrect, PTL

\* The body is cut twice at most; FIT_ATTEMPTS leaves six to spare.
THEOREM TwoCutsAreEnough == CallSpec => [](call.phase = "finish" => call.attempt <= 2)
<1>1. ASSUME CallInv PROVE call.phase = "finish" => call.attempt <= 2
  BY <1>1 DEF CallInv, CallOK, BodyOK
<1>2. QED
  BY <1>1, CallCorrect, PTL
=============================================================================
