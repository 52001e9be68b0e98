---------------------------- MODULE DisputeProofs ----------------------------
(***************************************************************************)
(* Theorems about EvidenceCache, for any readers and any two windows, and  *)
(* about the Dispute over what it keeps, for any number of attempts, runs,  *)
(* mishaps and transactions in flight.                                     *)
(***************************************************************************)
EXTENDS Dispute, FiniteSetTheorems, TLAPS

\* Before the store, there is nothing; afterwards the record can only be gone
\* once the filing window is over.
RecordInv ==
    /\ storedAt <= now
    /\ storedAt = 0 =>
           /\ expiresAt = 0 /\ answeredAt = 0 /\ alarm = 0 /\ handler = "idle" /\ torn = {}
    /\ expiresAt = 0 => handler = "idle"
    /\ expiresAt # 0 =>
           /\ storedAt # 0
           /\ storedAt + FilingTtl <= expiresAt
           /\ expiresAt < storedAt + FilingTtl + AdjudicationTtl
    /\ storedAt # 0 /\ expiresAt = 0 => storedAt + FilingTtl <= now

\* The alarm is never early for the filing window, and unless a disclosure was
\* torn it is, outside the handlers, the deadline of the record.
AlarmInv ==
    /\ alarm # 0 => storedAt + FilingTtl <= alarm
    /\ (alarm # 0 /\ expiresAt # 0 /\ torn = {} /\ handler \notin Readers) => alarm = expiresAt

\* A reader that is being answered, and one that was, has the whole runway.
RunwayInv ==
    /\ expiresAt = 0 => ~disclosed
    /\ expiresAt # 0 /\ ~disclosed => expiresAt = storedAt + FilingTtl
    /\ handler \in Readers => disclosed /\ now + AdjudicationTtl <= expiresAt
    /\ handler = "storing" => ~disclosed /\ answeredAt = 0
    /\ (disclosed /\ handler \notin Readers /\ torn = {}) => answeredAt # 0
    /\ (answeredAt # 0 /\ expiresAt # 0) => disclosed
    /\ (answeredAt # 0 /\ torn = {}) =>
           /\ expiresAt # 0 => answeredAt + AdjudicationTtl <= expiresAt
           /\ expiresAt = 0 => answeredAt + AdjudicationTtl <= now

CacheInv == CacheTypeOK /\ RecordInv /\ AlarmInv /\ RunwayInv

LEMMA InitInv == CacheInit => CacheInv
<1> SUFFICES ASSUME CacheInit PROVE CacheInv
  OBVIOUS
<1>b. disclosed \in BOOLEAN
  BY DEF CacheInit
<1>1. CacheTypeOK
  BY <1>b DEF CacheInit, CacheTypeOK
<1>2. RecordInv
  BY <1>1 DEF CacheInit, RecordInv
<1>3. AlarmInv /\ RunwayInv
  BY WindowAssumption DEF CacheInit, AlarmInv, RunwayInv
<1>4. QED
  BY <1>1, <1>2, <1>3 DEF CacheInv

LEMMA StoreInv ==
    ASSUME CacheInv, Store
    PROVE  CacheInv'
<1> USE WindowAssumption DEF storage, seen, CacheInv, CacheTypeOK
<1>1. CASE PutEnvelope
  <2>b. disclosed' \in BOOLEAN
    BY <1>1 DEF PutEnvelope
  <2>0. CacheTypeOK'
    BY <1>1, <2>b DEF PutEnvelope
  <2>1. /\ expiresAt' = now + FilingTtl /\ storedAt' = now /\ storedAt = 0
        /\ handler' = "storing" /\ UNCHANGED <<now, alarm, answeredAt, torn>>
    BY <1>1, Zenon DEF PutEnvelope
  <2>2. ~disclosed'
    BY <1>1, Zenon DEF PutEnvelope
  <2>3. now # 0
    OBVIOUS
  <2>4. RecordInv'
    BY <2>1, <2>3 DEF RecordInv
  <2>5. AlarmInv' /\ RunwayInv'
    BY <2>1, <2>2, <2>3 DEF RecordInv, AlarmInv, RunwayInv
  <2>6. QED
    BY <2>0, <2>4, <2>5
<1>2. CASE ArmStored
  <2>0. CacheTypeOK'
    BY <1>2 DEF ArmStored
  <2>1. RecordInv'
    BY <1>2 DEF ArmStored, RecordInv
  <2>2. AlarmInv' /\ RunwayInv'
    BY <1>2 DEF ArmStored, RecordInv, AlarmInv, RunwayInv
  <2>3. QED
    BY <2>0, <2>1, <2>2
<1>3. QED
  BY <1>1, <1>2 DEF Store

LEMMA ReadInv ==
    ASSUME CacheInv, NEW r \in Readers, Read(r)
    PROVE  CacheInv'
<1> USE WindowAssumption DEF storage, seen, CacheInv, CacheTypeOK
<1>1. CASE ReadMissing(r)
  BY <1>1 DEF ReadMissing, Told, RecordInv, AlarmInv, RunwayInv
<1>2. CASE PutDisclosed(r)
  <2>0. CacheTypeOK'
    BY <1>2 DEF PutDisclosed, Extended, Later, Live
  <2>1. /\ now < expiresAt /\ expiresAt' = Extended
        /\ handler = "idle" /\ handler' = r /\ UNCHANGED <<now, alarm, seen>>
    BY <1>2, Zenon DEF PutDisclosed, Live
  <2>2. ~disclosed /\ disclosed'
    BY <1>2, Zenon DEF PutDisclosed
  <2>3. /\ now + AdjudicationTtl <= expiresAt' /\ expiresAt <= expiresAt'
        /\ expiresAt' \in {expiresAt, now + AdjudicationTtl}
    BY <2>1 DEF Extended, Later
  <2>4. storedAt # 0 /\ expiresAt = storedAt + FilingTtl
    BY <2>1, <2>2 DEF RecordInv, RunwayInv
  <2>5. RecordInv'
    BY <2>1, <2>3, <2>4 DEF RecordInv
  <2>6. AlarmInv' /\ RunwayInv'
    BY <2>1, <2>2, <2>3 DEF RecordInv, AlarmInv, RunwayInv
  <2>7. QED
    BY <2>0, <2>5, <2>6
<1>3. CASE ArmDisclosed(r)
  <2>0. CacheTypeOK'
    BY <1>3 DEF ArmDisclosed, Told
  <2>1. RecordInv'
    BY <1>3 DEF ArmDisclosed, Told, RecordInv
  <2>2. AlarmInv' /\ RunwayInv'
    BY <1>3 DEF ArmDisclosed, Told, RecordInv, AlarmInv, RunwayInv
  <2>3. QED
    BY <2>0, <2>1, <2>2
<1>4. CASE ReadAgain(r)
  BY <1>4 DEF ReadAgain, Told, Live, RecordInv, AlarmInv, RunwayInv
<1>5. QED
  BY <1>1, <1>2, <1>3, <1>4 DEF Read

LEMMA OtherInv ==
    ASSUME CacheInv, ResetInHandler \/ AlarmFires \/ Tick \/ UNCHANGED cacheVars
    PROVE  CacheInv'
<1> USE WindowAssumption DEF storage, seen, CacheInv, CacheTypeOK
<1>1. CASE ResetInHandler
  <2>0. CacheTypeOK'
    BY <1>1 DEF ResetInHandler
  <2>1. RecordInv'
    BY <1>1 DEF ResetInHandler, RecordInv
  <2>2. AlarmInv' /\ RunwayInv'
    BY <1>1 DEF ResetInHandler, RecordInv, AlarmInv, RunwayInv
  <2>3. QED
    BY <2>0, <2>1, <2>2
<1>2. CASE AlarmFires
  <2>0. CacheTypeOK'
    BY <1>2 DEF AlarmFires
  <2>1. RecordInv'
    BY <1>2 DEF AlarmFires, RecordInv, AlarmInv
  <2>2. AlarmInv' /\ RunwayInv'
    BY <1>2 DEF AlarmFires, RecordInv, AlarmInv, RunwayInv
  <2>3. QED
    BY <2>0, <2>1, <2>2
<1>3. CASE Tick
  BY <1>3 DEF Tick, RecordInv, AlarmInv, RunwayInv
<1>4. CASE UNCHANGED cacheVars
  BY <1>4 DEF cacheVars, RecordInv, AlarmInv, RunwayInv
<1>5. QED
  BY <1>1, <1>2, <1>3, <1>4

LEMMA StepInv == CacheInv /\ [CacheNext]_cacheVars => CacheInv'
BY StoreInv, ReadInv, OtherInv DEF CacheNext

\* The evidence is there throughout its filing window, and throughout the
\* runway of whoever was answered first, with the alarm racing every read.
THEOREM EvidenceIsKept == CacheSpec => []ReadableWhenPromised
<1>1. CacheInv => ReadableWhenPromised
  BY WindowAssumption
     DEF CacheInv, CacheTypeOK, RecordInv, RunwayInv, ReadableWhenPromised, Live
<1>2. QED
  BY <1>1, InitInv, StepInv, PTL DEF CacheSpec

\* Reading prolongs the evidence once, so it ends with both windows.
THEOREM EvidenceEnds == CacheSpec => []NeverBeyondBothWindows
<1>1. CacheInv => NeverBeyondBothWindows
  BY WindowAssumption DEF CacheInv, CacheTypeOK, RecordInv, NeverBeyondBothWindows, Live
<1>2. QED
  BY <1>1, InitInv, StepInv, PTL DEF CacheSpec

promiseVars == <<now, KeptUntil, expiresAt, disclosed>>

LEMMA InitPromise == CacheInit => Promise!Init
BY DEF CacheInit, Promise!Init, KeptUntil

\* Every step of the object is one the store may take, or none.
LEMMA StepPromise == CacheInv /\ [CacheNext]_cacheVars => [Promise!Next]_promiseVars
<1> SUFFICES ASSUME CacheInv, [CacheNext]_cacheVars PROVE [Promise!Next]_promiseVars
  OBVIOUS
<1> USE WindowAssumption DEF storage, seen, CacheInv, CacheTypeOK
<1>1. CASE PutEnvelope
  <2>1. /\ expiresAt' = now + FilingTtl /\ storedAt' = now /\ storedAt = 0 /\ now' = now
        /\ now # 0
    BY <1>1 DEF PutEnvelope
  <2>2. KeptUntil = 0 /\ KeptUntil' = now + FilingTtl
    BY <2>1 DEF KeptUntil
  <2>3. disclosed' = disclosed
    <3>1. ~disclosed
      BY <2>1 DEF RecordInv, RunwayInv
    <3>2. disclosed' = FALSE
      BY <1>1, Zenon DEF PutEnvelope
    <3>3. QED
      BY <3>1, <3>2, Zenon
  <2>4. QED
    BY <2>1, <2>2, <2>3, Zenon DEF Promise!Next, Promise!Keep
<1>2. ASSUME NEW r \in Readers, PutDisclosed(r) PROVE Promise!Next
  BY <1>2 DEF PutDisclosed, Extended, Later, Live, KeptUntil, Promise!Next, Promise!Disclose
<1>3. CASE AlarmFires
  <2>1. CASE expiresAt = 0
    <3>1. ~disclosed
      BY <2>1 DEF RunwayInv
    <3>2. disclosed' = FALSE /\ expiresAt' = 0 /\ now' = now /\ storedAt' = storedAt
      BY <1>3, Zenon DEF AlarmFires
    <3>3. disclosed' = disclosed
      BY <3>1, <3>2, Zenon
    <3>4. QED
      BY <2>1, <3>2, <3>3, Zenon DEF KeptUntil, promiseVars
  <2>2. CASE expiresAt # 0
    <3>1. storedAt # 0 /\ storedAt + FilingTtl <= now
      BY <1>3, <2>2 DEF AlarmFires, RecordInv, AlarmInv
    <3>2. QED
      BY <1>3, <2>2, <3>1 DEF AlarmFires, KeptUntil, Promise!Next, Promise!Forget
  <2>3. QED
    BY <2>1, <2>2
<1>4. CASE Tick
  BY <1>4 DEF Tick, KeptUntil, Promise!Next, Promise!Tick
<1>5. CASE ArmStored \/ ResetInHandler \/ UNCHANGED cacheVars
  BY <1>5 DEF ArmStored, ResetInHandler, cacheVars, KeptUntil, promiseVars
<1>6. ASSUME NEW r \in Readers, ReadMissing(r) \/ ArmDisclosed(r) \/ ReadAgain(r)
      PROVE  UNCHANGED promiseVars
  BY <1>6 DEF ReadMissing, ArmDisclosed, ReadAgain, KeptUntil, promiseVars
<1>7. QED
  BY <1>1, <1>2, <1>3, <1>4, <1>5, <1>6 DEF CacheNext, Store, Read

\* With two-step writes, resets and late alarms, the object still implements
\* the store the rest of the proxy relies on.
THEOREM CacheImplementsStore == CacheSpec => ImplementsStore
BY InitInv, StepInv, InitPromise, StepPromise, PTL
   DEF CacheSpec, ImplementsStore, Promise!Spec, Promise!storeVars, promiseVars

-----------------------------------------------------------------------------
\* The dispute's use of the cache.

\* A step that only changes what the readers hold is none of the object's.
AnswersOnly ==
    /\ answers' \in [Readers -> {"none", "found", "missing", "failed"}]
    /\ UNCHANGED <<now, storage, alarm, handler, storedAt, answeredAt, torn>>

LEMMA AnswersOnlyInv ==
    ASSUME CacheInv, AnswersOnly
    PROVE  CacheInv'
BY DEF AnswersOnly, CacheInv, CacheTypeOK, RecordInv, AlarmInv, RunwayInv, storage

LEMMA JudgesRead == Judges \subseteq Readers /\ "leader" \in Readers /\ "validator" \in Readers
BY DisputeAssumption DEF Judges

\* The resolver's runs touch neither the object nor the claim's round.
LEMMA RunApart == Run => UNCHANGED <<cacheVars, claimVars, round>>
BY DEF Run, Step, List, Load, Skip, Send, SendFails, ReceiptTimeout, Count, Truncate,
       SaveState, RunLost

\* Every step of the dispute leaves the object as the object allows, or changes
\* only answers: a refused gate, and a round that failed.
LEMMA CacheUse ==
    ASSUME CacheInv, [Next]_vars
    PROVE  [CacheNext]_cacheVars \/ AnswersOnly
<1>1. ASSUME NEW r \in Readers, GateFails(r) PROVE AnswersOnly
  BY <1>1 DEF GateFails, Told, AnswersOnly, CacheInv, CacheTypeOK
<1>2. CASE Rotate
  BY <1>2 DEF Rotate, Execute, AnswersOnly, CacheInv, CacheTypeOK
<1>3. ASSUME NEW r \in Readers, ReadEvidence(r) PROVE CacheNext
  BY <1>3 DEF ReadEvidence, CacheNext
<1>4. CASE StoreEvidence \/ CacheStep
  BY <1>4 DEF StoreEvidence, CacheStep, CacheNext
<1>5. CASE UNCHANGED cacheVars
  BY <1>5
<1>6. QED
  BY <1>1, <1>2, <1>3, <1>4, <1>5, RunApart
     DEF Next, Reads, Round, StartRound, WriteVerdict, FileClaim, CancelClaim, Decide, Reject,
         Execute, OthersResolve, vars, cacheVars, seen

LEMMA CacheKept == CacheInv /\ [Next]_vars => CacheInv'
BY CacheUse, AnswersOnlyInv, StepInv

\* Behind the gate, with every round starting its readings over, the object
\* implements the store: what the store promises holds of disputes.
THEOREM DisputeImplementsStore == Spec => ImplementsStore
<1>1. Init => CacheInv /\ Promise!Init
  BY InitInv, InitPromise DEF Init
<1>2. CacheInv /\ [Next]_vars => [Promise!Next]_promiseVars
  <2>1. AnswersOnly => UNCHANGED promiseVars
    BY DEF AnswersOnly, promiseVars, KeptUntil, storage
  <2>2. QED
    BY <2>1, CacheUse, StepPromise
<1>3. QED
  BY <1>1, <1>2, CacheKept, PTL DEF Spec, ImplementsStore, Promise!Spec, Promise!storeVars, promiseVars

-----------------------------------------------------------------------------
\* What the two judges were shown.

\* The validator reads after the leader, and a judge's reading is answered, cut
\* or refused before its round can end.
RoundInv ==
    /\ round \in {"idle", "reading"}
    /\ round = "reading" => claim = "OPEN"
    /\ answers["leader"] = "none" => answers["validator"] = "none"
    /\ handler \in Judges => round = "reading" /\ answers[handler] = "none"
    /\ handler = "validator" => answers["leader"] # "none"
    /\ (\E r \in Readers : answers[r] = "found") => answeredAt # 0

DecidedInv ==
    claim \in {"MET", "BREACH"} => \A r \in Judges : answers[r] = "found"

DisputeInv == CacheInv /\ RoundInv /\ DecidedInv /\ ValidatorSeesWhatLeaderSaw

LEMMA ReadRound ==
    ASSUME DisputeInv, NEW r \in Readers, ReadEvidence(r), CacheInv'
    PROVE  DisputeInv'
<1> USE JudgesRead, WindowAssumption DEF seen
<1>1. /\ UNCHANGED <<round, claim>>
      /\ answers \in [Readers -> {"none", "found", "missing", "failed"}]
      /\ now # 0 /\ answeredAt \in Nat
  BY DEF ReadEvidence, disputeVars, claimVars, DisputeInv, CacheInv, CacheTypeOK
<1>2. MayRead(r) \/ handler = r
  BY DEF ReadEvidence
<1>3. /\ r \in Judges => round = "reading" /\ answers[r] = "none"
      /\ r = "validator" => answers["leader"] # "none"
  BY <1>2 DEF MayRead, DisputeInv, RoundInv
<1>4. claim \in {"MET", "BREACH"} => r \notin Judges
  BY <1>3 DEF DisputeInv, RoundInv
<1>5. CASE PutDisclosed(r)
  <2>1. handler' = r /\ UNCHANGED <<now, answers, answeredAt, torn>>
    BY <1>5 DEF PutDisclosed
  <2>2. RoundInv'
    BY <1>1, <1>3, <2>1 DEF DisputeInv, RoundInv
  <2>3. DecidedInv' /\ ValidatorSeesWhatLeaderSaw'
    BY <1>1, <2>1 DEF DisputeInv, DecidedInv, ValidatorSeesWhatLeaderSaw
  <2>4. QED
    BY <2>2, <2>3 DEF DisputeInv
<1>6. ASSUME NEW what \in {"found", "missing"}, Told(r, what), handler' = "idle",
             UNCHANGED <<now, torn>>,
             what = "missing" => ~Live
      PROVE  DisputeInv'
  <2>1. /\ answers' = [answers EXCEPT ![r] = what]
        /\ answeredAt' = IF what = "found" /\ answeredAt = 0 THEN now ELSE answeredAt
    BY <1>6 DEF Told
  <2>2. RoundInv'
    <3>1. answers'["leader"] = "none" => answers'["validator"] = "none"
      BY <1>1, <1>3, <1>6, <2>1 DEF DisputeInv, RoundInv, Judges
    <3>2. (\E x \in Readers : answers'[x] = "found") => answeredAt' # 0
      BY <1>1, <1>6, <2>1 DEF DisputeInv, RoundInv
    <3>3. handler' \notin Judges
      BY <1>6 DEF Judges
    <3>4. QED
      BY <1>1, <3>1, <3>2, <3>3 DEF DisputeInv, RoundInv, Judges
  <2>3. DecidedInv'
    BY <1>1, <1>4, <2>1 DEF DisputeInv, DecidedInv
  <2>4. ValidatorSeesWhatLeaderSaw'
    <3> SUFFICES ASSUME answers'["leader"] = "found", answers'["validator"] = "missing", torn' = {}
                 PROVE  now' >= answeredAt' + AdjudicationTtl
      BY DEF ValidatorSeesWhatLeaderSaw
    <3>1. CASE r = "leader"
      BY <1>1, <1>3, <2>1, <3>1 DEF DisputeInv, RoundInv, Judges
    <3>2. CASE r = "validator"
      <4>1. answers["leader"] = "found" /\ what = "missing"
        BY <1>1, <2>1, <3>2
      <4>2. answeredAt # 0 /\ answeredAt' = answeredAt
        BY <2>1, <4>1 DEF DisputeInv, RoundInv
      <4>3. ~(now < answeredAt + AdjudicationTtl)
        <5>1. expiresAt <= now /\ now \in Nat /\ expiresAt \in Nat /\ answeredAt \in Nat
          BY <1>6, <4>1 DEF Live, DisputeInv, CacheInv, CacheTypeOK
        <5>2. torn = {}
          BY <1>6
        <5>3. QED
          BY <4>2, <5>1, <5>2 DEF DisputeInv, CacheInv, RunwayInv
      <4>4. QED
        BY <1>1, <1>6, <4>2, <4>3 DEF DisputeInv, CacheInv, CacheTypeOK
    <3>3. CASE r \notin Judges
      <4>1. answers["leader"] = "found" /\ answers["validator"] = "missing"
        BY <1>1, <2>1, <3>3 DEF Judges
      <4>2. answeredAt # 0
        BY <4>1 DEF DisputeInv, RoundInv
      <4>3. answeredAt' = answeredAt
        BY <2>1, <4>2
      <4>4. QED
        BY <1>6, <4>1, <4>3 DEF DisputeInv, ValidatorSeesWhatLeaderSaw
    <3>4. QED
      BY <3>1, <3>2, <3>3 DEF Judges
  <2>5. QED
    BY <2>2, <2>3, <2>4 DEF DisputeInv
<1>7. CASE ReadMissing(r) \/ ArmDisclosed(r) \/ ReadAgain(r)
  BY <1>6, <1>7 DEF ReadMissing, ArmDisclosed, ReadAgain
<1>8. QED
  BY <1>5, <1>7 DEF ReadEvidence, Read

\* A refused gate tells a judge that it could not read, not that there is
\* nothing; a reset tells the reader it cut short the same.
LEMMA FailedRound ==
    ASSUME DisputeInv, CacheInv', NEW r \in Readers,
           answers' = [answers EXCEPT ![r] = "failed"],
           r \in Judges => round = "reading",
           r = "validator" => answers["leader"] # "none",
           handler' = "idle", torn \subseteq torn',
           UNCHANGED <<now, answeredAt, round, claim>>
    PROVE  DisputeInv'
<1> USE JudgesRead
<1>1. answers \in [Readers -> {"none", "found", "missing", "failed"}]
  BY DEF DisputeInv, CacheInv, CacheTypeOK
<1>2. RoundInv'
  <2>1. answers'["leader"] = "none" => answers'["validator"] = "none"
    BY <1>1 DEF DisputeInv, RoundInv, Judges
  <2>2. (\E x \in Readers : answers'[x] = "found") => answeredAt' # 0
    BY <1>1 DEF DisputeInv, RoundInv
  <2>3. handler' \notin Judges
    BY DEF Judges
  <2>4. QED
    BY <2>1, <2>2, <2>3 DEF DisputeInv, RoundInv, Judges
<1>3. DecidedInv'
  BY <1>1 DEF DisputeInv, DecidedInv, RoundInv
<1>4. ValidatorSeesWhatLeaderSaw'
  BY <1>1 DEF DisputeInv, ValidatorSeesWhatLeaderSaw
<1>5. QED
  BY <1>2, <1>3, <1>4 DEF DisputeInv

\* A step that answers nobody and leaves the round and the claim alone.
LEMMA QuietRound ==
    ASSUME DisputeInv, CacheInv', UNCHANGED <<answers, answeredAt, torn, round, claim>>,
           handler' = handler \/ handler' \notin Judges, now' >= now
    PROVE  DisputeInv'
<1>1. now \in Nat /\ now' \in Nat /\ answeredAt \in Nat
  BY DEF DisputeInv, CacheInv, CacheTypeOK
<1>2. RoundInv' /\ DecidedInv'
  BY JudgesRead DEF DisputeInv, RoundInv, DecidedInv, Judges
<1>3. ValidatorSeesWhatLeaderSaw'
  BY <1>1, WindowAssumption DEF DisputeInv, ValidatorSeesWhatLeaderSaw
<1>4. QED
  BY <1>2, <1>3 DEF DisputeInv

LEMMA InitDispute == Init => DisputeInv
BY InitInv, JudgesRead, WindowAssumption
   DEF Init, CacheInit, DisputeInv, RoundInv, DecidedInv, ValidatorSeesWhatLeaderSaw, Judges

LEMMA StepDispute == DisputeInv /\ [Next]_vars => DisputeInv'
<1> SUFFICES ASSUME DisputeInv, [Next]_vars PROVE DisputeInv'
  OBVIOUS
<1> USE JudgesRead
<1>0. CacheInv'
  BY CacheKept DEF DisputeInv
<1>t. /\ answers \in [Readers -> {"none", "found", "missing", "failed"}]
      /\ now \in Nat /\ answeredAt \in Nat
  BY DEF DisputeInv, CacheInv, CacheTypeOK
<1>1. ASSUME NEW r \in Readers, GateFails(r) PROVE DisputeInv'
  <2>1. MayRead(r) /\ answers' = [answers EXCEPT ![r] = "failed"]
        /\ UNCHANGED <<now, handler, torn, answeredAt, round, claim>>
    BY <1>1 DEF GateFails, Told, disputeVars, claimVars
  <2>2. handler' = "idle" /\ (r \in Judges => round = "reading")
        /\ (r = "validator" => answers["leader"] # "none")
    BY <2>1 DEF MayRead
  <2>3. QED
    BY <1>0, <2>1, <2>2, FailedRound
<1>2. ASSUME NEW r \in Readers, ReadEvidence(r) PROVE DisputeInv'
  BY <1>0, <1>2, ReadRound
<1>3. CASE ResetInHandler /\ UNCHANGED disputeVars
  <2>1. /\ handler' = "idle" /\ torn \subseteq torn'
        /\ UNCHANGED <<now, answeredAt, round, claim>>
        /\ answers' = [r \in Readers |-> IF r = handler THEN "failed" ELSE answers[r]]
    BY <1>3 DEF ResetInHandler, disputeVars, claimVars
  <2>2. CASE handler \in Readers
    <3>1. answers' = [answers EXCEPT ![handler] = "failed"]
      BY <1>t, <2>1, <2>2
    <3>2. /\ handler \in Judges => round = "reading"
          /\ handler = "validator" => answers["leader"] # "none"
      BY DEF DisputeInv, RoundInv
    <3>3. QED
      BY <1>0, <2>1, <2>2, <3>1, <3>2, FailedRound
  <2>3. CASE handler \notin Readers
    <3>1. answers' = answers
      BY <1>t, <2>1, <2>3
    <3>2. torn' = torn
      BY <1>3, <2>3 DEF ResetInHandler
    <3>3. QED
      BY <1>0, <1>t, <2>1, <3>1, <3>2, QuietRound DEF Judges
  <2>4. QED
    BY <2>2, <2>3
<1>4. CASE StartRound
  <2>1. /\ claim = "OPEN" /\ claim' = claim /\ round' = "reading" /\ round = "idle"
        /\ UNCHANGED <<now, handler, answers, answeredAt, torn>>
    BY <1>4 DEF StartRound, claimVars, cacheVars, seen
  <2>2. RoundInv'
    BY <2>1 DEF DisputeInv, RoundInv, Judges
  <2>3. DecidedInv' /\ ValidatorSeesWhatLeaderSaw'
    BY <2>1 DEF DisputeInv, DecidedInv, ValidatorSeesWhatLeaderSaw
  <2>4. QED
    BY <1>0, <2>2, <2>3 DEF DisputeInv
<1>5. CASE Decide
  <2>1. /\ round = "reading" /\ \A r \in Judges : answers[r] # "none"
        /\ claim' \in Judgments(answers["leader"]) /\ claim' \in Judgments(answers["validator"])
        /\ round' = "idle"
        /\ UNCHANGED <<now, handler, answers, answeredAt, torn>>
    BY <1>5 DEF Decide, Execute
  <2>2. handler \notin Judges
    BY <2>1 DEF DisputeInv, RoundInv
  <2>3. RoundInv'
    BY <2>1, <2>2 DEF DisputeInv, RoundInv, Judges
  <2>4. DecidedInv'
    BY <1>t, <2>1 DEF DecidedInv, Judgments, Judges
  <2>5. ValidatorSeesWhatLeaderSaw'
    BY <2>1 DEF DisputeInv, ValidatorSeesWhatLeaderSaw
  <2>6. QED
    BY <1>0, <2>3, <2>4, <2>5 DEF DisputeInv
<1>6. CASE Rotate
  <2>1. /\ round' = "idle" /\ claim' = claim /\ claim = "OPEN" /\ handler \notin Judges
        /\ answers' = [r \in Readers |-> IF r \in Judges THEN "none" ELSE answers[r]]
        /\ UNCHANGED <<now, handler, answeredAt, torn>>
    BY <1>6 DEF Rotate, Execute, DisputeInv, RoundInv
  <2>2. answers'["leader"] = "none" /\ answers'["validator"] = "none"
        /\ \A r \in Readers : answers'[r] = "found" => answers[r] = "found"
    BY <1>t, <2>1 DEF Judges
  <2>3. RoundInv'
    BY <2>1, <2>2 DEF DisputeInv, RoundInv, Judges
  <2>4. DecidedInv' /\ ValidatorSeesWhatLeaderSaw'
    BY <2>1, <2>2 DEF DecidedInv, ValidatorSeesWhatLeaderSaw
  <2>5. QED
    BY <1>0, <2>3, <2>4 DEF DisputeInv
<1>13. CASE Reject
  <2>1. /\ round = "idle" /\ round' = "idle" /\ claim' = claim
        /\ UNCHANGED <<now, handler, answers, answeredAt, torn>>
    BY <1>13 DEF Reject, Execute
  <2>2. QED
    BY <1>0, <1>t, <2>1, QuietRound
<1>7. CASE FileClaim \/ CancelClaim
  <2>1. /\ claim' \in {"OPEN", "CANCELLED"} /\ round' = round
        /\ UNCHANGED <<now, handler, answers, answeredAt, torn>>
        /\ claim \in {"none", "OPEN"} /\ (claim = "OPEN" => round = "idle")
    BY <1>7 DEF FileClaim, CancelClaim, cacheVars, seen
  <2>2. round = "idle"
    BY <2>1 DEF DisputeInv, RoundInv
  <2>3. RoundInv'
    BY <2>1, <2>2 DEF DisputeInv, RoundInv, Judges
  <2>4. DecidedInv' /\ ValidatorSeesWhatLeaderSaw'
    BY <2>1 DEF DisputeInv, DecidedInv, ValidatorSeesWhatLeaderSaw
  <2>5. QED
    BY <1>0, <2>3, <2>4 DEF DisputeInv
<1>8. CASE StoreEvidence
  <2>1. UNCHANGED <<now, answers, answeredAt, torn, round, claim>> /\ handler' \notin Judges
    BY <1>8 DEF StoreEvidence, Store, PutEnvelope, ArmStored, seen, disputeVars, claimVars, Judges
  <2>2. QED
    BY <1>0, <1>t, <2>1, QuietRound
<1>9. CASE (AlarmFires \/ Tick) /\ UNCHANGED disputeVars
  <2>1. UNCHANGED <<answers, answeredAt, torn, round, claim, handler>> /\ now' \in {now, now + 1}
    BY <1>9 DEF AlarmFires, Tick, seen, disputeVars, claimVars
  <2>2. QED
    BY <1>0, <1>t, <2>1, QuietRound
<1>10. CASE UNCHANGED <<cacheVars, claimVars, round>>
  BY <1>0, <1>10, <1>t, QuietRound DEF cacheVars, seen, claimVars
<1>11. CASE WriteVerdict
  BY <1>0, <1>11, <1>t, QuietRound DEF WriteVerdict, cacheVars, seen
<1>12. QED
  BY <1>1, <1>2, <1>3, <1>4, <1>5, <1>6, <1>7, <1>8, <1>9, <1>10, <1>11, <1>13, RunApart
     DEF Next, Reads, Round, CacheStep, OthersResolve, vars, disputeVars

\* The validator of a round is not shown less than its leader within the
\* runway, unless a reset tore the first disclosure, however the two readings,
\* the alarm and the clock fall.
THEOREM RunwayReachesTheValidator == Spec => []ValidatorSeesWhatLeaderSaw
<1>1. DisputeInv => ValidatorSeesWhatLeaderSaw
  BY DEF DisputeInv
<1>2. QED
  BY <1>1, InitDispute, StepDispute, PTL DEF Spec

\* A claim judged on its merits was judged of stored evidence that the leader
\* and the validator both read, whatever was lost, refused or reset before.
THEOREM MeritsWereReadTwice == Spec => []MeritsNeedTwoReadings
<1>1. DisputeInv => MeritsNeedTwoReadings
  BY JudgesRead
     DEF DisputeInv, DecidedInv, RoundInv, CacheInv, RecordInv, MeritsNeedTwoReadings, Judges
<1>2. QED
  BY <1>1, InitDispute, StepDispute, PTL DEF Spec

-----------------------------------------------------------------------------
\* The resolver's attempts.

QueueInv ==
    /\ txs \in Seq(Runs \cup {Other})
    /\ round = "reading" => txs # << >>
    /\ claim \in {"none", "OPEN"} \cup Closed
    /\ job \in [Runs -> {"idle", "listed", "started", "waiting", "ok", "error", "writing"}]
    /\ \A i \in DOMAIN txs : txs[i] \in Runs => job[txs[i]] = "waiting"
    /\ \A i, j \in DOMAIN txs : txs[i] \in Runs /\ txs[i] = txs[j] => i = j

CountsInv ==
    /\ sent \in Nat /\ mishaps \in Nat /\ unread \in Nat
    /\ saved \in 0 .. MaxAttempts /\ attempts \in [Runs -> 0 .. MaxAttempts]
    /\ \A r \in Runs : job[r] \in {"waiting", "ok", "error"} => attempts[r] < MaxAttempts
    /\ \A r \in Runs : job[r] = "ok" => claim \in Closed

\* What was sent, and what the runs that have not sent yet may still send.
Unsent == {r \in Runs : job[r] \in {"listed", "started"}}
Due == sent + Cardinality(Unsent)

\* Whoever goes on from a count of n stays within the limit.
Accounts(n) == Due + MaxAttempts <= n + Limit

\* A run that has counted accounts for all; one that is still to count, and the
\* file beside runs at work, for all but one.
Accounted ==
    /\ text = "whole" => Accounts(saved + 1)
    /\ text = "whole" /\ AtWork = {} => Accounts(saved)
    /\ \A r \in Runs : job[r] \in {"started", "waiting", "ok", "error"} => Accounts(attempts[r] + 1)
    /\ \A r \in Runs : job[r] = "writing" => Accounts(attempts[r])

\* Nobody sends any more, unless it finds the file unreadable.
Exhausted ==
    /\ Due <= Limit + 1
    /\ text = "whole" => saved = MaxAttempts
    /\ \A r \in Runs : job[r] \in {"idle", "listed", "started", "writing"}
    /\ \A r \in Runs : job[r] \in {"started", "writing"} => attempts[r] = MaxAttempts

AttemptsInv ==
    /\ sent <= Limit
    /\ Exhausted \/ (Due <= Limit /\ (claim \in Closed \/ Accounted))

WorkInv == QueueInv /\ CountsInv /\ AttemptsInv

LEMMA LimitSteps ==
    ASSUME CountsInv
    PROVE  /\ Limit \in Nat
           /\ UNCHANGED <<unread, mishaps>> => Limit' = Limit
           /\ unread' = unread /\ mishaps' = mishaps + 1 => Limit' = Limit + 1
           /\ unread' = unread + 1 /\ mishaps' = mishaps => Limit' = Limit + MaxAttempts
<1>1. MaxAttempts \in Nat /\ unread \in Nat /\ mishaps \in Nat
  BY DisputeAssumption DEF CountsInv
<1>2. MaxAttempts * (1 + unread) \in Nat
  BY <1>1
<1>3. MaxAttempts * (1 + (unread + 1)) = MaxAttempts * (1 + unread) + MaxAttempts
  BY <1>1
<1>4. QED
  BY <1>1, <1>2, <1>3 DEF Limit

LEMMA UnsentIsFinite ==
    /\ IsFiniteSet(Unsent) /\ Cardinality(Unsent) \in Nat
    /\ Unsent = {} => Cardinality(Unsent) = 0
<1>1. IsFiniteSet(Runs)
  BY FS_Interval, DisputeAssumption DEF Runs
<1>2. Unsent \in SUBSET Runs
  BY DEF Unsent
<1>3. IsFiniteSet(Unsent)
  BY <1>1, <1>2, FS_Subset
<1>4. QED
  BY <1>3, FS_CardinalityType, FS_EmptySet

\* What one run's step makes of the number of those that have not sent.
LEMMA UnsentSteps ==
    ASSUME QueueInv, NEW r \in Runs, NEW phase, job' = [job EXCEPT ![r] = phase]
    PROVE  /\ job[r] = "idle" /\ phase = "listed" =>
                  Cardinality(Unsent') = Cardinality(Unsent) + 1
           /\ job[r] \in {"listed", "started"} /\ phase \notin {"listed", "started"} =>
                  Cardinality(Unsent) = Cardinality(Unsent') + 1
           /\ job[r] \in {"listed", "started"} /\ phase \in {"listed", "started"} =>
                  Cardinality(Unsent') = Cardinality(Unsent)
           /\ Cardinality(Unsent') \in Nat
<1>t. /\ job'[r] = phase /\ \A q \in Runs : q # r => job'[q] = job[q]
      /\ IsFiniteSet(Unsent) /\ Cardinality(Unsent) \in Nat
  BY UnsentIsFinite DEF QueueInv
<1>1. CASE job[r] \in {"listed", "started"} <=> phase \in {"listed", "started"}
  <2>1. Unsent' = Unsent
    BY <1>1, <1>t DEF Unsent
  <2>2. QED
    BY <1>1, <1>t, <2>1
<1>2. CASE job[r] \notin {"listed", "started"} /\ phase \in {"listed", "started"}
  <2>1. Unsent' = Unsent \cup {r} /\ r \notin Unsent
    BY <1>2, <1>t DEF Unsent
  <2>2. Cardinality(Unsent') = Cardinality(Unsent) + 1
    BY <1>t, <2>1, FS_AddElement
  <2>3. QED
    BY <1>2, <1>t, <2>2
<1>3. CASE job[r] \in {"listed", "started"} /\ phase \notin {"listed", "started"}
  <2>1. Unsent' = Unsent \ {r} /\ r \in Unsent
    BY <1>3, <1>t DEF Unsent
  <2>2. Cardinality(Unsent') = Cardinality(Unsent) - 1 /\ Cardinality(Unsent) # 0
    BY <1>t, <2>1, FS_RemoveElement, FS_EmptySet
  <2>3. QED
    BY <1>3, <1>t, <2>2
<1>4. QED
  BY <1>1, <1>2, <1>3

\* The steps of a run that has sent already, or will not.
LEMMA UnsentRest ==
    ASSUME QueueInv, NEW r \in Runs, NEW phase \in {"ok", "error", "writing", "idle"},
           job' = [job EXCEPT ![r] = phase]
    PROVE  /\ Cardinality(Unsent') <= Cardinality(Unsent)
           /\ job[r] \in {"waiting", "ok", "error", "writing"} =>
                  Cardinality(Unsent') = Cardinality(Unsent)
           /\ Cardinality(Unsent') \in Nat /\ Cardinality(Unsent) \in Nat
<1>1. phase \notin {"listed", "started"} /\ Cardinality(Unsent) \in Nat
  BY UnsentIsFinite
<1>2. job'[r] = phase /\ \A q \in Runs : q # r => job'[q] = job[q]
  BY DEF QueueInv
<1>3. CASE job[r] \in {"listed", "started"}
  <2>1. Cardinality(Unsent) = Cardinality(Unsent') + 1 /\ Cardinality(Unsent') \in Nat
    BY <1>1, <1>3, UnsentSteps
  <2>2. QED
    BY <1>1, <1>3, <2>1
<1>4. CASE job[r] \notin {"listed", "started"}
  <2>1. Unsent' = Unsent
    BY <1>1, <1>2, <1>4 DEF Unsent
  <2>2. QED
    BY <1>1, <2>1
<1>5. QED
  BY <1>3, <1>4

-----------------------------------------------------------------------------
\* The queue and the counts.

\* A run hears of a transaction only while it waits for that one.
LEMMA ExecuteQueue ==
    ASSUME QueueInv, NEW result \in {"ok", "error"}, Execute(result), txs # << >>
    PROVE  /\ txs' \in Seq(Runs \cup {Other})
           /\ job' \in [Runs -> {"idle", "listed", "started", "waiting", "ok", "error", "writing"}]
           /\ \A r \in Runs : job'[r] = job[r] \/ (job[r] = "waiting" /\ job'[r] = result)
           /\ \A i \in DOMAIN txs' : txs'[i] \in Runs => job'[txs'[i]] = "waiting"
           /\ \A i, j \in DOMAIN txs' : txs'[i] \in Runs /\ txs'[i] = txs'[j] => i = j
<1>1. txs \in Seq(Runs \cup {Other}) /\ txs' = Tail(txs) /\ Len(txs) \in Nat /\ Len(txs) > 0
  BY DEF QueueInv, Execute
<1>2. txs' \in Seq(Runs \cup {Other}) /\ Len(txs') = Len(txs) - 1
  BY <1>1
<1>3. /\ DOMAIN txs = 1 .. Len(txs) /\ DOMAIN txs' = 1 .. Len(txs')
      /\ 1 \in DOMAIN txs /\ Head(txs) = txs[1]
  BY <1>1, <1>2
<1>4. ASSUME NEW i \in DOMAIN txs'
      PROVE  i \in Nat /\ i + 1 \in DOMAIN txs /\ i + 1 # 1 /\ txs'[i] = txs[i + 1]
  BY <1>1, <1>2, <1>3
<1>5. ASSUME NEW i \in DOMAIN txs', NEW j \in DOMAIN txs', txs'[i] \in Runs, txs'[i] = txs'[j]
      PROVE  i = j
  <2>1. i + 1 = j + 1
    BY <1>4, <1>5 DEF QueueInv
  <2>2. QED
    BY <1>4, <2>1
<1>6. job' = [r \in Runs |-> IF Head(txs) = r THEN result ELSE job[r]]
  BY DEF Execute
<1>7. \A r \in Runs : job'[r] = job[r] \/ (job[r] = "waiting" /\ job'[r] = result)
  BY <1>3, <1>6 DEF QueueInv
<1>8. ASSUME NEW i \in DOMAIN txs', txs'[i] \in Runs PROVE job'[txs'[i]] = "waiting"
  <2>1. job[txs'[i]] = "waiting" /\ txs'[i] # Head(txs)
    BY <1>3, <1>4, <1>8 DEF QueueInv
  <2>2. QED
    BY <1>6, <1>8, <2>1
<1>9. job' \in [Runs -> {"idle", "listed", "started", "waiting", "ok", "error", "writing"}]
  BY <1>6 DEF QueueInv
<1>10. QED
  BY <1>2, <1>5, <1>7, <1>8, <1>9

\* The transaction of a run that stopped waiting is like anybody's.
LEMMA OrphanedQueue ==
    ASSUME QueueInv, NEW r \in Runs, txs' = Orphaned(r)
    PROVE  /\ txs' \in Seq(Runs \cup {Other}) /\ (txs # << >> => txs' # << >>)
           /\ DOMAIN txs' = DOMAIN txs
           /\ \A i \in DOMAIN txs : txs'[i] \in Runs => txs'[i] = txs[i] /\ txs[i] # r
<1>1. txs \in Seq(Runs \cup {Other}) /\ Other \notin Runs
  BY DEF QueueInv, Other, Runs
<1>2. PICK n \in Nat : DOMAIN txs = 1 .. n /\ (txs # << >> => n > 0)
  BY <1>1
<1>3. txs' = [i \in 1 .. n |-> IF txs[i] = r THEN Other ELSE txs[i]]
  BY <1>2 DEF Orphaned
<1>4. \A i \in 1 .. n : txs[i] \in Runs \cup {Other}
  BY <1>1, <1>2
<1>5. txs' \in Seq(Runs \cup {Other}) /\ Len(txs') = n
  BY <1>3, <1>4
<1>6. QED
  BY <1>1, <1>2, <1>3, <1>5

\* A step of r that leaves the queue alone, or leaves r's transaction in it.
LEMMA QuietQueue ==
    ASSUME QueueInv, NEW r \in Runs, UNCHANGED <<claim, round>>,
           NEW phase \in {"idle", "listed", "started", "waiting", "ok", "error", "writing"},
           job' = [job EXCEPT ![r] = phase],
           txs' = Orphaned(r) \/ (txs' = txs /\ job[r] # "waiting")
    PROVE  QueueInv'
<1>1. /\ job' \in [Runs -> {"idle", "listed", "started", "waiting", "ok", "error", "writing"}]
      /\ \A q \in Runs : q # r => job'[q] = job[q]
  BY DEF QueueInv
<1>2. CASE txs' = Orphaned(r)
  BY <1>1, <1>2, OrphanedQueue DEF QueueInv
<1>3. CASE txs' = txs /\ job[r] # "waiting"
  BY <1>1, <1>3 DEF QueueInv
<1>4. QED
  BY <1>2, <1>3

LEMMA RunQueue ==
    ASSUME QueueInv, CountsInv, sent <= Limit, NEW r \in Runs, Step(r)
    PROVE  QueueInv' /\ CountsInv'
<1> USE DisputeAssumption DEF claimVars, fileVars, tally
<1>1. CASE List(r)
  <2>1. QueueInv'
    BY <1>1, QuietQueue DEF List
  <2>2. CountsInv'
    BY <1>1 DEF List, CountsInv, QueueInv
  <2>3. QED
    BY <2>1, <2>2
<1>2. CASE Load(r)
  <2>1. QueueInv'
    BY <1>2, QuietQueue DEF Load
  <2>2. CountsInv'
    BY <1>2 DEF Load, CountsInv, QueueInv
  <2>3. QED
    BY <2>1, <2>2
<1>3. CASE Skip(r)
  <2>1. QueueInv'
    BY <1>3, QuietQueue DEF Skip, Truncate
  <2>2. CountsInv'
    BY <1>3 DEF Skip, Truncate, CountsInv, QueueInv
  <2>3. QED
    BY <2>1, <2>2
<1>4. CASE Send(r)
  <2>1. /\ job[r] = "started" /\ job' = [job EXCEPT ![r] = "waiting"] /\ txs' = Append(txs, r)
        /\ UNCHANGED <<claim, round, attempts, saved, mishaps, unread>> /\ attempts[r] < MaxAttempts
        /\ sent' = sent + 1
    BY <1>4 DEF Send, CountsInv, Limit
  <2>2. txs \in Seq(Runs \cup {Other}) /\ \A i \in 1 .. Len(txs) : txs[i] # r
    BY <2>1 DEF QueueInv
  <2>3. /\ txs' \in Seq(Runs \cup {Other}) /\ DOMAIN txs' = 1 .. Len(txs) + 1
        /\ \A i \in 1 .. Len(txs) : txs'[i] = txs[i]
        /\ txs'[Len(txs) + 1] = r /\ txs' # << >>
    BY <2>1, <2>2
  <2>4. Len(txs) \in Nat /\ DOMAIN txs = 1 .. Len(txs)
    BY <2>2
  <2>5. /\ job' \in [Runs -> {"idle", "listed", "started", "waiting", "ok", "error", "writing"}]
        /\ job'[r] = "waiting" /\ \A q \in Runs : q # r => job'[q] = job[q]
    BY <2>1 DEF QueueInv
  <2>6. ASSUME NEW i \in DOMAIN txs', txs'[i] \in Runs PROVE job'[txs'[i]] = "waiting"
    BY <2>2, <2>3, <2>4, <2>5, <2>6 DEF QueueInv
  <2>7. ASSUME NEW i \in DOMAIN txs', NEW j \in DOMAIN txs', txs'[i] \in Runs, txs'[i] = txs'[j]
        PROVE  i = j
    BY <2>2, <2>3, <2>4, <2>7 DEF QueueInv
  <2>8. QueueInv'
    BY <2>1, <2>3, <2>5, <2>6, <2>7 DEF QueueInv
  <2>9. CountsInv'
    BY <2>1, <2>5 DEF CountsInv, QueueInv
  <2>10. QED
    BY <2>8, <2>9
<1>5. CASE SendFails(r)
  <2>1. QueueInv'
    BY <1>5, QuietQueue DEF SendFails
  <2>2. CountsInv'
    BY <1>5 DEF SendFails, CountsInv, QueueInv
  <2>3. QED
    BY <2>1, <2>2
<1>6. CASE ReceiptTimeout(r)
  <2>1. QueueInv'
    BY <1>6, QuietQueue DEF ReceiptTimeout
  <2>2. CountsInv'
    BY <1>6 DEF ReceiptTimeout, CountsInv, QueueInv
  <2>3. QED
    BY <2>1, <2>2
<1>7. CASE Count(r)
  <2>1. QueueInv'
    BY <1>7, QuietQueue DEF Count, Truncate
  <2>2. CountsInv'
    <3>1. PICK n \in 0 .. MaxAttempts : Truncate(r, n)
      BY <1>7 DEF Count, CountsInv
    <3>2. /\ attempts' \in [Runs -> 0 .. MaxAttempts]
          /\ \A q \in Runs : q # r => attempts'[q] = attempts[q] /\ job'[q] = job[q]
          /\ job'[r] = "writing"
      BY <3>1 DEF Truncate, CountsInv, QueueInv
    <3>3. QED
      BY <3>1, <3>2 DEF Truncate, CountsInv
  <2>3. QED
    BY <2>1, <2>2
<1>8. CASE SaveState(r)
  <2>1. QueueInv'
    BY <1>8, QuietQueue DEF SaveState, Garbled
  <2>2. CountsInv'
    BY <1>8 DEF SaveState, Garbled, CountsInv, QueueInv
  <2>3. QED
    BY <2>1, <2>2
<1>9. CASE RunLost(r)
  <2>1. QueueInv'
    BY <1>9, QuietQueue DEF RunLost, Garbled, AtWork
  <2>2. CountsInv'
    BY <1>9 DEF RunLost, Garbled, AtWork, CountsInv, QueueInv
  <2>3. QED
    BY <2>1, <2>2
<1>10. QED
  BY <1>1, <1>2, <1>3, <1>4, <1>5, <1>6, <1>7, <1>8, <1>9 DEF Step

-----------------------------------------------------------------------------
\* The limit.

LEMMA Numbers ==
    ASSUME CountsInv
    PROVE  /\ Due \in Nat /\ sent <= Due /\ sent \in Nat /\ Limit \in Nat /\ saved \in 0 .. MaxAttempts
           /\ MaxAttempts \in Nat /\ MaxAttempts > 0 /\ attempts \in [Runs -> 0 .. MaxAttempts]
<1>1. Cardinality(Unsent) \in Nat
  BY UnsentIsFinite
<1>2. QED
  BY <1>1, LimitSteps, DisputeAssumption DEF Due, CountsInv

LEMMA ListAttempts ==
    ASSUME QueueInv, CountsInv, AttemptsInv, NEW r \in Runs, List(r)
    PROVE  AttemptsInv'
<1>1. /\ job[r] = "idle" /\ claim = "OPEN" /\ claim \notin Closed
      /\ job' = [job EXCEPT ![r] = "listed"]
      /\ mishaps' = IF AtWork = {} THEN mishaps ELSE mishaps + 1
      /\ UNCHANGED <<claim, sent, saved, text, attempts, unread>>
  BY DEF List, claimVars, fileVars, Closed
<1>2. Limit \in Nat /\ Limit' = IF AtWork = {} THEN Limit ELSE Limit + 1
  BY <1>1, LimitSteps DEF CountsInv
<1>3. /\ job'[r] = "listed" /\ \A q \in Runs : q # r => job'[q] = job[q]
      /\ AtWork' # {}
  BY <1>1 DEF QueueInv, AtWork
<1>4. Due \in Nat /\ Due' = Due + 1
  <2>1. Cardinality(Unsent') = Cardinality(Unsent) + 1 /\ Cardinality(Unsent) \in Nat
    BY <1>1, UnsentSteps, UnsentIsFinite
  <2>2. QED
    BY <1>1, <2>1 DEF Due, CountsInv
<1>t. saved \in Nat /\ saved <= MaxAttempts /\ MaxAttempts \in Nat /\ sent \in Nat
      /\ attempts \in [Runs -> 0 .. MaxAttempts]
  BY DisputeAssumption DEF CountsInv
<1>5. CASE AtWork = {}
  <2>1. \A q \in Runs : job[q] = "idle" /\ (q # r => job'[q] = "idle")
    BY <1>3, <1>5 DEF AtWork
  <2>2. Due = sent
    BY <1>t, <2>1, UnsentIsFinite DEF Due, Unsent
  <2>3. CASE text = "whole" => saved = MaxAttempts
    BY <1>1, <1>2, <1>3, <1>4, <1>5, <2>1, <2>2, <2>3 DEF AttemptsInv, Exhausted
  <2>4. CASE text = "whole" /\ saved # MaxAttempts
    <3>1. Due + MaxAttempts <= saved + Limit
      BY <1>1, <1>5, <2>4 DEF AttemptsInv, Exhausted, Accounted, Accounts
    <3>2. Due' <= Limit'
      BY <1>2, <1>4, <1>5, <1>t, <2>4, <3>1
    <3>3. Accounted'
      BY <1>1, <1>2, <1>3, <1>4, <1>5, <1>t, <2>1, <3>1 DEF Accounted, Accounts
    <3>4. QED
      BY <1>1, <1>2, <1>5, <3>2, <3>3 DEF AttemptsInv
  <2>5. QED
    BY <2>3, <2>4
<1>6. CASE AtWork # {}
  <2>1. CASE Exhausted
    BY <1>1, <1>2, <1>3, <1>4, <1>6, <1>t, <2>1 DEF AttemptsInv, Exhausted
  <2>2. CASE Due <= Limit /\ Accounted
    <3>1. Accounted'
      BY <1>1, <1>2, <1>3, <1>4, <1>6, <1>t, <2>2 DEF Accounted, Accounts
    <3>2. QED
      BY <1>1, <1>2, <1>4, <1>6, <1>t, <2>2, <3>1 DEF AttemptsInv
  <2>3. QED
    BY <1>1, <2>1, <2>2 DEF AttemptsInv
<1>7. QED
  BY <1>5, <1>6

LEMMA LoadAttempts ==
    ASSUME QueueInv, CountsInv, AttemptsInv, NEW r \in Runs, Load(r)
    PROVE  AttemptsInv'
<1>t. /\ Due \in Nat /\ sent <= Due /\ sent \in Nat /\ Limit \in Nat /\ saved \in 0 .. MaxAttempts
      /\ MaxAttempts \in Nat /\ MaxAttempts > 0 /\ attempts \in [Runs -> 0 .. MaxAttempts]
  BY Numbers
<1>1. /\ job[r] = "listed" /\ job' = [job EXCEPT ![r] = "started"]
      /\ attempts' = [attempts EXCEPT ![r] = saved]
      /\ unread' = IF text = "whole" THEN unread ELSE unread + 1
      /\ UNCHANGED <<claim, sent, saved, text, mishaps>>
  BY DEF Load, claimVars, fileVars
<1>2. Due' = Due
  <2>1. Cardinality(Unsent') = Cardinality(Unsent) /\ Cardinality(Unsent) \in Nat
    BY <1>1, UnsentSteps, UnsentIsFinite
  <2>2. QED
    BY <1>1, <2>1 DEF Due, CountsInv
<1>3. Limit' = IF text = "whole" THEN Limit ELSE Limit + MaxAttempts
  BY <1>1, LimitSteps
<1>4. /\ \A q \in Runs : q # r => job'[q] = job[q] /\ attempts'[q] = attempts[q]
      /\ job'[r] = "started" /\ attempts'[r] = saved
  BY <1>1 DEF QueueInv, CountsInv
<1>5. AtWork' = AtWork
  BY <1>1, <1>4 DEF AtWork
<1>6. CASE text = "whole"
  <2>1. CASE Exhausted
    BY <1>1, <1>2, <1>3, <1>4, <1>t, <1>6, <2>1 DEF AttemptsInv, Exhausted
  <2>2. ASSUME Accounted PROVE Accounted'
    BY <1>1, <1>2, <1>3, <1>4, <1>t, <1>5, <1>6, <2>2 DEF Accounted, Accounts
  <2>3. QED
    BY <1>1, <1>2, <1>3, <1>t, <1>6, <2>1, <2>2 DEF AttemptsInv
<1>7. CASE text # "whole"
  <2>1. sent' <= Limit' /\ Due' <= Limit'
    BY <1>1, <1>2, <1>3, <1>t, <1>7 DEF AttemptsInv, Exhausted
  <2>2. CASE Exhausted
    <3>1. Accounted'
      BY <1>1, <1>2, <1>3, <1>4, <1>t, <1>7, <2>2 DEF Exhausted, Accounted, Accounts
    <3>2. QED
      BY <2>1, <3>1 DEF AttemptsInv
  <2>3. CASE Due <= Limit /\ Accounted
    <3>1. Accounted'
      BY <1>1, <1>2, <1>3, <1>4, <1>t, <1>7, <2>3 DEF Accounted, Accounts
    <3>2. QED
      BY <2>1, <3>1 DEF AttemptsInv
  <2>4. QED
    BY <1>1, <2>1, <2>2, <2>3 DEF AttemptsInv
<1>8. QED
  BY <1>6, <1>7

LEMMA SkipAttempts ==
    ASSUME QueueInv, CountsInv, AttemptsInv, NEW r \in Runs, Skip(r)
    PROVE  AttemptsInv'
<1>t. /\ Due \in Nat /\ sent <= Due /\ sent \in Nat /\ Limit \in Nat /\ saved \in 0 .. MaxAttempts
      /\ MaxAttempts \in Nat /\ MaxAttempts > 0 /\ attempts \in [Runs -> 0 .. MaxAttempts]
  BY Numbers
<1>1. /\ job[r] = "started" /\ job' = [job EXCEPT ![r] = "writing"]
      /\ attempts[r] = MaxAttempts /\ attempts' = [attempts EXCEPT ![r] = attempts[r]]
      /\ text' = "empty" /\ UNCHANGED <<claim, sent, mishaps, unread>>
  BY <1>t DEF Skip, Truncate, claimVars, tally
<1>2. Due' \in Nat /\ Due' = Due - 1
  <2>1. Cardinality(Unsent) = Cardinality(Unsent') + 1 /\ Cardinality(Unsent') \in Nat
    BY <1>1, UnsentSteps, UnsentIsFinite
  <2>2. QED
    BY <1>1, <2>1 DEF Due, CountsInv
<1>3. Limit' = Limit
  BY <1>1, LimitSteps
<1>4. /\ \A q \in Runs : q # r => job'[q] = job[q] /\ attempts'[q] = attempts[q]
      /\ job'[r] = "writing" /\ attempts'[r] = attempts[r]
  BY <1>1 DEF QueueInv, CountsInv
<1>5. CASE Exhausted
  BY <1>1, <1>2, <1>3, <1>4, <1>t, <1>5 DEF AttemptsInv, Exhausted
<1>6. ASSUME Due <= Limit, Accounted PROVE Accounted'
  <2>1. ASSUME NEW n \in Nat, Due + MaxAttempts <= n + Limit
        PROVE  Due' + MaxAttempts <= n + Limit'
    <3>1. Due \in Nat /\ MaxAttempts \in Nat /\ Limit \in Nat
      BY <1>t
    <3>2. QED
      BY <1>2, <1>3, <2>1, <3>1
  <2>2. saved + 1 \in Nat /\ saved \in Nat
        /\ \A q \in Runs : attempts[q] \in Nat /\ attempts[q] + 1 \in Nat
    BY <1>t
  <2>3. Due' + MaxAttempts <= attempts'[r] + Limit'
    BY <1>1, <1>2, <1>3, <1>4, <1>6, <1>t
  <2>4. QED
    BY <1>1, <1>4, <1>6, <2>1, <2>2, <2>3 DEF Accounted, Accounts
<1>7. QED
  BY <1>1, <1>2, <1>3, <1>t, <1>5, <1>6 DEF AttemptsInv

LEMMA SendAttempts ==
    ASSUME QueueInv, CountsInv, AttemptsInv, NEW r \in Runs, Send(r)
    PROVE  AttemptsInv'
<1>t. /\ Due \in Nat /\ sent <= Due /\ sent \in Nat /\ Limit \in Nat /\ saved \in 0 .. MaxAttempts
      /\ MaxAttempts \in Nat /\ MaxAttempts > 0 /\ attempts \in [Runs -> 0 .. MaxAttempts]
  BY Numbers
<1>1. /\ job[r] = "started" /\ job' = [job EXCEPT ![r] = "waiting"]
      /\ attempts[r] < MaxAttempts /\ sent' = sent + 1
      /\ UNCHANGED <<claim, saved, text, attempts, mishaps, unread>>
  BY <1>t DEF Send, AttemptsInv, claimVars, fileVars
<1>2. Due' = Due /\ sent' <= Due'
  <2>1. Cardinality(Unsent) = Cardinality(Unsent') + 1 /\ Cardinality(Unsent') \in Nat
    BY <1>1, UnsentSteps, UnsentIsFinite
  <2>2. QED
    BY <1>1, <2>1 DEF Due, CountsInv
<1>3. Limit' = Limit
  BY <1>1, LimitSteps
<1>4. /\ \A q \in Runs : q # r => job'[q] = job[q] /\ attempts'[q] = attempts[q]
      /\ job'[r] = "waiting" /\ attempts'[r] = attempts[r]
  BY <1>1 DEF QueueInv, CountsInv
<1>5. ~Exhausted
  BY <1>1, <1>t DEF Exhausted
<1>6. ASSUME Accounted PROVE Accounted'
  BY <1>1, <1>2, <1>3, <1>4, <1>t, <1>6 DEF Accounted, Accounts, AtWork
<1>7. QED
  BY <1>1, <1>2, <1>3, <1>t, <1>5, <1>6 DEF AttemptsInv

LEMMA SendFailsAttempts ==
    ASSUME QueueInv, CountsInv, AttemptsInv, NEW r \in Runs, SendFails(r)
    PROVE  AttemptsInv'
<1>t. /\ Due \in Nat /\ sent <= Due /\ sent \in Nat /\ Limit \in Nat /\ saved \in 0 .. MaxAttempts
      /\ MaxAttempts \in Nat /\ MaxAttempts > 0 /\ attempts \in [Runs -> 0 .. MaxAttempts]
  BY Numbers
<1>1. /\ job[r] = "started" /\ job' = [job EXCEPT ![r] = "error"]
      /\ attempts[r] < MaxAttempts
      /\ UNCHANGED <<claim, sent, saved, text, attempts, mishaps, unread>>
  BY DEF SendFails, claimVars, fileVars, tally
<1>2. Due' \in Nat /\ Due' = Due - 1
  <2>1. Cardinality(Unsent) = Cardinality(Unsent') + 1 /\ Cardinality(Unsent') \in Nat
    BY <1>1, UnsentSteps, UnsentIsFinite
  <2>2. QED
    BY <1>1, <2>1 DEF Due, CountsInv
<1>3. Limit' = Limit
  BY <1>1, LimitSteps
<1>4. /\ \A q \in Runs : q # r => job'[q] = job[q] /\ attempts'[q] = attempts[q]
      /\ job'[r] = "error" /\ attempts'[r] = attempts[r]
  BY <1>1 DEF QueueInv, CountsInv
<1>5. ~Exhausted
  BY <1>1, <1>t DEF Exhausted
<1>6. ASSUME Accounted PROVE Accounted'
  <2>1. ASSUME NEW n \in Nat, Due + MaxAttempts <= n + Limit
        PROVE  Due' + MaxAttempts <= n + Limit'
    <3>1. Due \in Nat /\ MaxAttempts \in Nat /\ Limit \in Nat
      BY <1>t
    <3>2. QED
      BY <1>2, <1>3, <2>1, <3>1
  <2>2. saved + 1 \in Nat /\ saved \in Nat
        /\ \A q \in Runs : attempts[q] \in Nat /\ attempts[q] + 1 \in Nat
    BY <1>t
  <2>3. QED
    BY <1>1, <1>4, <1>6, <2>1, <2>2 DEF Accounted, Accounts, AtWork
<1>7. QED
  BY <1>1, <1>2, <1>3, <1>t, <1>5, <1>6 DEF AttemptsInv

LEMMA TimeoutAttempts ==
    ASSUME QueueInv, CountsInv, AttemptsInv, NEW r \in Runs, ReceiptTimeout(r)
    PROVE  AttemptsInv'
<1>t. /\ Due \in Nat /\ sent <= Due /\ sent \in Nat /\ Limit \in Nat /\ saved \in 0 .. MaxAttempts
      /\ MaxAttempts \in Nat /\ MaxAttempts > 0 /\ attempts \in [Runs -> 0 .. MaxAttempts]
  BY Numbers
<1>1. /\ job[r] = "waiting" /\ job' = [job EXCEPT ![r] = "error"]
      /\ UNCHANGED <<claim, sent, saved, text, attempts, mishaps, unread>>
  BY DEF ReceiptTimeout, claimVars, fileVars, tally
<1>2. Due' = Due
  <2>1. Cardinality(Unsent') = Cardinality(Unsent) /\ Cardinality(Unsent) \in Nat
    BY <1>1, UnsentRest
  <2>2. QED
    BY <1>1, <2>1 DEF Due, CountsInv
<1>3. Limit' = Limit
  BY <1>1, LimitSteps
<1>4. /\ \A q \in Runs : q # r => job'[q] = job[q] /\ attempts'[q] = attempts[q]
      /\ job'[r] = "error" /\ attempts'[r] = attempts[r]
  BY <1>1 DEF QueueInv, CountsInv
<1>5. ~Exhausted
  BY <1>1, <1>t DEF Exhausted
<1>6. ASSUME Accounted PROVE Accounted'
  BY <1>1, <1>2, <1>3, <1>4, <1>t, <1>6 DEF Accounted, Accounts, AtWork
<1>7. QED
  BY <1>1, <1>2, <1>3, <1>t, <1>5, <1>6 DEF AttemptsInv

LEMMA CountAttempts ==
    ASSUME QueueInv, CountsInv, AttemptsInv, NEW r \in Runs, Count(r)
    PROVE  AttemptsInv'
<1>t. /\ Due \in Nat /\ sent <= Due /\ sent \in Nat /\ Limit \in Nat /\ saved \in 0 .. MaxAttempts
      /\ MaxAttempts \in Nat /\ MaxAttempts > 0 /\ attempts \in [Runs -> 0 .. MaxAttempts]
  BY Numbers
<1>1. /\ job[r] \in {"ok", "error"} /\ job' = [job EXCEPT ![r] = "writing"]
      /\ attempts' = [attempts EXCEPT ![r] = attempts'[r]]
      /\ attempts'[r] = attempts[r] + 1 \/ claim \in Closed
      /\ text' = "empty" /\ UNCHANGED <<claim, sent, mishaps, unread>>
  BY <1>t DEF Count, Truncate, CountsInv, claimVars, tally
<1>2. Due' = Due
  <2>1. Cardinality(Unsent') = Cardinality(Unsent) /\ Cardinality(Unsent) \in Nat
    BY <1>1, UnsentRest
  <2>2. QED
    BY <1>1, <2>1 DEF Due, CountsInv
<1>3. Limit' = Limit
  BY <1>1, LimitSteps
<1>4. /\ \A q \in Runs : q # r => job'[q] = job[q] /\ attempts'[q] = attempts[q]
      /\ job'[r] = "writing" /\ attempts'[r] = attempts'[r]
  BY <1>1 DEF QueueInv, CountsInv
<1>5. ~Exhausted
  BY <1>1, <1>t DEF Exhausted
<1>6. ASSUME Accounted, claim \notin Closed PROVE Accounted'
  BY <1>1, <1>2, <1>3, <1>4, <1>t, <1>6 DEF Accounted, Accounts
<1>7. QED
  BY <1>1, <1>2, <1>3, <1>t, <1>5, <1>6 DEF AttemptsInv

LEMMA SaveAttempts ==
    ASSUME QueueInv, CountsInv, AttemptsInv, NEW r \in Runs, SaveState(r)
    PROVE  AttemptsInv'
<1>t. /\ Due \in Nat /\ sent <= Due /\ sent \in Nat /\ Limit \in Nat /\ saved \in 0 .. MaxAttempts
      /\ MaxAttempts \in Nat /\ MaxAttempts > 0 /\ attempts \in [Runs -> 0 .. MaxAttempts]
  BY Numbers
<1>1. /\ job[r] = "writing" /\ job' = [job EXCEPT ![r] = "idle"]
      /\ attempts' = [attempts EXCEPT ![r] = 0]
      /\ text' = "whole" => saved' = attempts[r]
      /\ UNCHANGED <<claim, sent, mishaps, unread>>
  BY DEF SaveState, Garbled, claimVars, tally
<1>2. Due' = Due
  <2>1. Cardinality(Unsent') = Cardinality(Unsent) /\ Cardinality(Unsent) \in Nat
    BY <1>1, UnsentRest
  <2>2. QED
    BY <1>1, <2>1 DEF Due, CountsInv
<1>3. Limit' = Limit
  BY <1>1, LimitSteps
<1>4. /\ \A q \in Runs : q # r => job'[q] = job[q] /\ attempts'[q] = attempts[q]
      /\ job'[r] = "idle" /\ attempts'[r] = 0
  BY <1>1 DEF QueueInv, CountsInv
<1>5. CASE Exhausted
  BY <1>1, <1>2, <1>3, <1>4, <1>t, <1>5 DEF AttemptsInv, Exhausted
<1>6. ASSUME Accounted PROVE Accounted'
  BY <1>1, <1>2, <1>3, <1>4, <1>t, <1>6 DEF Accounted, Accounts
<1>7. QED
  BY <1>1, <1>2, <1>3, <1>t, <1>5, <1>6 DEF AttemptsInv

LEMMA LostAttempts ==
    ASSUME QueueInv, CountsInv, AttemptsInv, NEW r \in Runs, RunLost(r)
    PROVE  AttemptsInv'
<1>t. /\ Due \in Nat /\ sent <= Due /\ sent \in Nat /\ Limit \in Nat /\ saved \in 0 .. MaxAttempts
      /\ MaxAttempts \in Nat /\ MaxAttempts > 0 /\ attempts \in [Runs -> 0 .. MaxAttempts]
  BY Numbers
<1>1. /\ job[r] # "idle" /\ job' = [job EXCEPT ![r] = "idle"]
      /\ attempts' = [attempts EXCEPT ![r] = 0] /\ mishaps' = mishaps + 1
      /\ text' = "whole" => text = "whole" /\ saved' = saved
      /\ UNCHANGED <<claim, sent, unread>>
  BY <1>t DEF RunLost, Garbled, AtWork, claimVars, fileVars
<1>2. Due' \in Nat /\ Due' <= Due
  <2>1. Cardinality(Unsent') <= Cardinality(Unsent) /\ Cardinality(Unsent) \in Nat /\ Cardinality(Unsent') \in Nat
    BY <1>1, UnsentRest
  <2>2. QED
    BY <1>1, <2>1 DEF Due, CountsInv
<1>3. Limit' = Limit + 1
  BY <1>1, LimitSteps
<1>4. /\ \A q \in Runs : q # r => job'[q] = job[q] /\ attempts'[q] = attempts[q]
      /\ job'[r] = "idle" /\ attempts'[r] = 0
  BY <1>1 DEF QueueInv, CountsInv
<1>5. CASE Exhausted
  BY <1>1, <1>2, <1>3, <1>4, <1>t, <1>5 DEF AttemptsInv, Exhausted
<1>6. ASSUME Accounted PROVE Accounted'
  BY <1>1, <1>2, <1>3, <1>4, <1>t, <1>6 DEF Accounted, Accounts
<1>7. QED
  BY <1>1, <1>2, <1>3, <1>t, <1>5, <1>6 DEF AttemptsInv

-----------------------------------------------------------------------------
\* All steps.

LEMMA RunWork == WorkInv /\ Run => WorkInv'
<1> SUFFICES ASSUME WorkInv, NEW r \in Runs, Step(r) PROVE WorkInv'
  BY DEF Run
<1>1. QueueInv' /\ CountsInv'
  BY RunQueue DEF WorkInv, AttemptsInv
<1>2. AttemptsInv'
  BY ListAttempts, LoadAttempts, SkipAttempts, SendAttempts, SendFailsAttempts, TimeoutAttempts,
     CountAttempts, SaveAttempts, LostAttempts DEF WorkInv, Step
<1>3. QED
  BY <1>1, <1>2 DEF WorkInv

\* Hearing of a transaction, a run is still one that has sent.
LEMMA ExecuteWork ==
    ASSUME WorkInv, NEW result \in {"ok", "error"}, Execute(result), txs # << >>,
           claim' = claim \/ claim' \in Closed, result = "ok" => claim' \in Closed
    PROVE  WorkInv'
<1>1. /\ UNCHANGED <<attempts, saved, text, sent, mishaps, unread>> /\ round' = "idle"
      /\ claim \in Closed => claim' \in Closed
  BY DEF Execute, fileVars, tally
<1>2. /\ job' \in [Runs -> {"idle", "listed", "started", "waiting", "ok", "error", "writing"}]
      /\ \A r \in Runs : job'[r] = job[r] \/ (job[r] = "waiting" /\ job'[r] = result)
  BY ExecuteQueue DEF WorkInv
<1>3. QueueInv'
  BY <1>1, ExecuteQueue DEF WorkInv, QueueInv
<1>4. CountsInv'
  BY <1>1, <1>2 DEF WorkInv, CountsInv
<1>5. Unsent' = Unsent /\ (AtWork' = {} <=> AtWork = {})
  BY <1>2 DEF Unsent, AtWork
<1>6. Due' = Due /\ Limit' = Limit
  BY <1>1, <1>5, LimitSteps DEF Due, WorkInv
<1>7. Exhausted => Exhausted'
  BY <1>1, <1>2, <1>6 DEF Exhausted
<1>8. Accounted => Accounted'
  BY <1>1, <1>2, <1>5, <1>6 DEF Accounted, Accounts
<1>9. AttemptsInv'
  BY <1>1, <1>6, <1>7, <1>8 DEF WorkInv, AttemptsInv
<1>10. QED
  BY <1>3, <1>4, <1>9 DEF WorkInv

LEMMA InitWork == Init => WorkInv
<1> SUFFICES ASSUME Init PROVE WorkInv
  OBVIOUS
<1>1. QueueInv /\ CountsInv
  BY DisputeAssumption DEF Init, QueueInv, CountsInv
<1>2. Unsent = {} /\ AtWork = {}
  BY DEF Init, Unsent, AtWork
<1>3. Due = 0
  BY <1>2, UnsentIsFinite DEF Due, Init
<1>4. Limit = MaxAttempts
  BY DisputeAssumption DEF Limit, Init
<1>5. AttemptsInv
  BY <1>2, <1>3, <1>4, DisputeAssumption DEF Init, AttemptsInv, Accounted, Accounts
<1>6. QED
  BY <1>1, <1>5 DEF WorkInv

\* The claim may be filed or closed beside the runs.
LEMMA StepWork == WorkInv /\ [Next]_vars => WorkInv'
<1> SUFFICES ASSUME WorkInv, [Next]_vars PROVE WorkInv'
  OBVIOUS
<1>1. CASE Run
  BY <1>1, RunWork
<1>2. CASE Decide \/ Rotate \/ Reject
  <2>1. txs # << >>
    BY <1>2 DEF Decide, Rotate, Reject, WorkInv, QueueInv
  <2>2. CASE Decide
    BY <2>1, <2>2, ExecuteWork DEF Decide
  <2>3. CASE Rotate \/ Reject
    BY <2>1, <2>3, ExecuteWork DEF Rotate, Reject
  <2>4. QED
    BY <1>2, <2>2, <2>3
<1>3. ASSUME UNCHANGED jobVars, claim' = claim \/ (claim \in {"none", "OPEN"} /\ claim' \in {"OPEN", "CANCELLED"})
      PROVE  CountsInv' /\ AttemptsInv'
  <2>1. UNCHANGED <<job, attempts, saved, text, sent, mishaps, unread>>
        /\ (claim \in Closed => claim' \in Closed)
    BY <1>3 DEF jobVars, fileVars, tally, Closed
  <2>2. CountsInv'
    BY <2>1 DEF WorkInv, CountsInv
  <2>3. Due' = Due /\ Limit' = Limit /\ (AtWork' = {} <=> AtWork = {})
    BY <2>1, LimitSteps DEF Due, Unsent, AtWork, WorkInv
  <2>4. (Exhausted => Exhausted') /\ (Accounted => Accounted')
    BY <2>1, <2>3 DEF Exhausted, Accounted, Accounts
  <2>5. AttemptsInv'
    BY <2>1, <2>3, <2>4 DEF WorkInv, AttemptsInv
  <2>6. QED
    BY <2>2, <2>5
<1>4. CASE OthersResolve
  <2>1. txs' = <<Other>> /\ Other \notin Runs /\ UNCHANGED <<claim, round, jobVars>>
    BY <1>4 DEF OthersResolve, claimVars, Other, Runs
  <2>2. QueueInv'
    BY <2>1 DEF WorkInv, QueueInv, jobVars
  <2>3. QED
    BY <1>3, <2>1, <2>2 DEF WorkInv
<1>5. CASE FileClaim \/ CancelClaim
  <2>1. UNCHANGED <<txs, round, jobVars>> /\ claim' \in {"OPEN", "CANCELLED"}
        /\ claim \in {"none", "OPEN"}
    BY <1>5 DEF FileClaim, CancelClaim
  <2>2. QueueInv'
    BY <2>1 DEF WorkInv, QueueInv, jobVars, Closed
  <2>3. QED
    BY <1>3, <2>1, <2>2 DEF WorkInv
<1>6. CASE UNCHANGED <<txs, claim, jobVars>> /\ (round' = round \/ txs # << >>)
  <2>1. QueueInv'
    BY <1>6 DEF WorkInv, QueueInv, jobVars
  <2>2. QED
    BY <1>3, <1>6, <2>1 DEF WorkInv
<1>7. QED
  BY <1>1, <1>2, <1>4, <1>5, <1>6
     DEF Next, Reads, GateFails, ReadEvidence, WriteVerdict, StoreEvidence, Round, StartRound,
         CacheStep, vars, disputeVars, claimVars

\* However runs die, overlap, wait in vain and garble their file, they try a
\* claim no oftener than the limit, but for one try more per run that was lost
\* or began beside another, and a count anew per run that could not read the
\* file: timeouts, orphaned transactions and stale copies forget no more.
THEOREM AttemptsAreNotForgotten == Spec => []AttemptsAreRemembered
<1>1. WorkInv => AttemptsAreRemembered
  BY DEF WorkInv, AttemptsInv, AttemptsAreRemembered
<1>2. QED
  BY <1>1, InitWork, StepWork, PTL DEF Spec
=============================================================================
