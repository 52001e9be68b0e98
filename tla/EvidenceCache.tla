---------------------------- MODULE EvidenceCache ----------------------------
(***************************************************************************)
(* proxy/src/evidence-do.js: the Durable Object that keeps the evidence of *)
(* one paid call, with its storage and its alarm.                          *)
(*                                                                         *)
(* A handler runs against no other one of its object, but it writes in two *)
(* awaited steps, the record and then the alarm, and the object can be     *)
(* reset between them: then the first is kept and nobody is answered.  A   *)
(* handler takes less than a unit of time.  The alarm fires when it is due *)
(* or later.                                                               *)
(***************************************************************************)
EXTENDS Naturals

CONSTANTS
    Readers,            \* who reads the evidence endpoint
    FilingTtl,          \* config.evidenceFilingWindowMs
    AdjudicationTtl,    \* config.evidenceAdjudicationWindowMs
    MaxTime             \* bound on the clock

ASSUME WindowAssumption ==
    /\ Readers \cap {"idle", "storing"} = {}
    /\ FilingTtl \in Nat \ {0} /\ AdjudicationTtl \in Nat \ {0} /\ MaxTime \in Nat \ {0}

VARIABLES
    now,
    expiresAt,          \* EXPIRES_KEY, put and deleted with the envelope: 0 for neither
    disclosed,          \* DISCLOSED_KEY
    alarm,              \* when the alarm is set to fire, 0 for none
    handler,            \* "idle", "storing", or the reader a first disclosure is for
    answers,            \* reader -> what its last read was told
    storedAt,           \* history: when the record was put, 0 before
    answeredAt,         \* history: when a reader was first answered with it
    torn                \* history: readers whose disclosure a reset cut in two

storage == <<expiresAt, disclosed>>
seen == <<answers, storedAt, answeredAt, torn>>
cacheVars == <<now, storage, alarm, handler, seen>>

Later(a, b) == IF a >= b THEN a ELSE b

CacheInit ==
    /\ now = 1
    /\ expiresAt = 0 /\ disclosed = FALSE
    /\ alarm = 0
    /\ handler = "idle"
    /\ answers = [r \in Readers |-> "none"]
    /\ storedAt = 0 /\ answeredAt = 0 /\ torn = {}

\* The router stores once per requestId, which it has just issued.
PutEnvelope ==
    /\ handler = "idle" /\ storedAt = 0
    /\ expiresAt' = now + FilingTtl /\ disclosed' = FALSE
    /\ handler' = "storing"
    /\ storedAt' = now
    /\ UNCHANGED <<now, alarm, answers, answeredAt, torn>>

ArmStored ==
    /\ handler = "storing"
    /\ alarm' = expiresAt
    /\ handler' = "idle"
    /\ UNCHANGED <<now, storage, seen>>

\* Mutant: an envelope is still live at its deadline.
LiveAtDeadline == expiresAt # 0 /\ now <= expiresAt

\* Checked rather than trusted to the alarm, which may be late.
Live == now < expiresAt

Told(r, what) ==
    /\ answers' = [answers EXCEPT ![r] = what]
    /\ answeredAt' = IF what = "found" /\ answeredAt = 0 THEN now ELSE answeredAt

ReadMissing(r) ==
    /\ handler = "idle" /\ ~Live
    /\ Told(r, "missing")
    /\ UNCHANGED <<now, storage, alarm, handler, storedAt, torn>>

\* Reading early never shortens the filing window.
Extended == Later(expiresAt, now + AdjudicationTtl)

PutDisclosed(r) ==
    /\ handler = "idle" /\ Live /\ ~disclosed
    /\ disclosed' = TRUE /\ expiresAt' = Extended
    /\ handler' = r
    /\ UNCHANGED <<now, alarm, seen>>

\* Mutant: the alarm stays where store set it.
ArmDisclosedNever(r) ==
    /\ handler = r
    /\ handler' = "idle"
    /\ Told(r, "found")
    /\ UNCHANGED <<now, storage, alarm, storedAt, torn>>

ArmDisclosed(r) ==
    /\ handler = r
    /\ alarm' = expiresAt
    /\ handler' = "idle"
    /\ Told(r, "found")
    /\ UNCHANGED <<now, storage, storedAt, torn>>

ReadAgain(r) ==
    /\ handler = "idle" /\ Live /\ disclosed
    /\ Told(r, "found")
    /\ UNCHANGED <<now, storage, alarm, handler, storedAt, torn>>

Read(r) == ReadMissing(r) \/ PutDisclosed(r) \/ ArmDisclosed(r) \/ ReadAgain(r)

\* The object is lost between the two writes; whoever waits is not answered.
ResetInHandler ==
    /\ handler # "idle"
    /\ handler' = "idle"
    /\ torn' = torn \cup ({handler} \cap Readers)
    /\ answers' = [r \in Readers |-> IF r = handler THEN "failed" ELSE answers[r]]
    /\ UNCHANGED <<now, storage, alarm, storedAt, answeredAt>>

\* alarm(): deleteAll, whatever the record says.
AlarmFires ==
    /\ handler = "idle" /\ alarm # 0 /\ alarm <= now
    /\ alarm' = 0
    /\ expiresAt' = 0 /\ disclosed' = FALSE
    /\ UNCHANGED <<now, handler, seen>>

Tick ==
    /\ handler = "idle" /\ now < MaxTime
    /\ now' = now + 1
    /\ UNCHANGED <<storage, alarm, handler, seen>>

Store == PutEnvelope \/ ArmStored

CacheNext ==
    \/ Store
    \/ \E r \in Readers : Read(r)
    \/ ResetInHandler
    \/ AlarmFires
    \/ Tick

CacheSpec == CacheInit /\ [][CacheNext]_cacheVars

-----------------------------------------------------------------------------
CacheTypeOK ==
    /\ now \in Nat \ {0} /\ expiresAt \in Nat /\ alarm \in Nat
    /\ storedAt \in Nat /\ answeredAt \in Nat
    /\ disclosed \in BOOLEAN
    /\ torn \subseteq Readers
    /\ handler \in {"idle", "storing"} \cup Readers
    /\ answers \in [Readers -> {"none", "found", "missing", "failed"}]

\* Evidence that was put can be read throughout its filing window, and from
\* the first answered disclosure throughout the adjudication runway, although
\* the alarm deletes without asking and was first set for the earlier deadline;
\* only a reset inside the first disclosure can cut the runway short.
ReadableWhenPromised ==
    /\ storedAt # 0 /\ now < storedAt + FilingTtl => Live
    /\ answeredAt # 0 /\ torn = {} /\ now < answeredAt + AdjudicationTtl => Live

\* Nobody's reading prolongs the evidence again and again: its deadline never
\* passes both windows together.
NeverBeyondBothWindows == Live => expiresAt < storedAt + FilingTtl + AdjudicationTtl

\* The object with its two-step writes, resets and late alarms implements the
\* promise.
KeptUntil == IF storedAt = 0 THEN 0 ELSE storedAt + FilingTtl
Promise == INSTANCE EvidenceStore WITH keptUntil <- KeptUntil, deadline <- expiresAt

ImplementsStore == Promise!Spec
=============================================================================
