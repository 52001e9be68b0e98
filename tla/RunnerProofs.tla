---------------------------- MODULE RunnerProofs ----------------------------
(***************************************************************************)
(* However many children the supervisor spawns and however their events,   *)
(* the restart timer and the signals interleave, one simulator runs at     *)
(* most.                                                                   *)
(*                                                                         *)
(* That only one runs is not inductive: it does not say why the timer      *)
(* finds the port free when it fires.  It does because a restart is        *)
(* scheduled by a report, a report is of the child spawned last, and a     *)
(* child that has reported is gone for good.                               *)
(***************************************************************************)
EXTENDS Runner, FiniteSetTheorems, TLAPS

(* Nothing older than the current child is left running. *)
OnlyTheLastRuns == \A c \in Children : Alive(c) => c = spawned

(* A child with an event on its way is the current one, and it is gone. *)
ReportersAreGone == \A c \in Children : reports[c] # {} => c = spawned /\ ~Alive(c)

(* While a restart is due nothing runs. *)
RestartsAfterADeath == timers = 1 => spawned > 0 /\ \A c \in Children : ~Alive(c)

Supervised == OnlyTheLastRuns /\ ReportersAreGone /\ RestartsAfterADeath
IInv == TypeOK /\ Supervised

-----------------------------------------------------------------------------
(* What spawnChild does for a supervisor that runs nothing: the new child  *)
(* alone may run, and alone may have something to report.                  *)
LEMMA SpawnReplaces ==
  ASSUME IInv, spawned < MaxSpawns, Spawn,
         \A c \in Children : ~Alive(c),
         \A c \in Children : reports[c] = {}
  PROVE  /\ child' \in [Children -> {"unborn", "compiling", "serving", "gone"}]
         /\ reports' \in [Children -> SUBSET Events]
         /\ spawned' \in 1 .. MaxSpawns
         /\ \A c \in Children : Alive(c)' => c = spawned'
         /\ \A c \in Children : reports'[c] # {} => c = spawned' /\ ~Alive(c)'
<1> USE RunnerAssumption DEF Children, Events, Alive
<1>1. spawned + 1 \in Children /\ spawned' = spawned + 1 /\ spawned' \in 1 .. MaxSpawns
  BY DEF IInv, TypeOK, Spawn
<1>2. CASE /\ child' = [child EXCEPT ![spawned + 1] = "compiling"]
           /\ UNCHANGED reports
  BY <1>1, <1>2 DEF IInv, TypeOK
<1>3. CASE /\ child' = [child EXCEPT ![spawned + 1] = "gone"]
           /\ \E more \in SUBSET {"exit"} :
                reports' = [reports EXCEPT ![spawned + 1] = {"error"} \cup more]
  <2>1. PICK more \in SUBSET {"exit"} :
          reports' = [reports EXCEPT ![spawned + 1] = {"error"} \cup more]
    BY <1>3
  <2>2. {"error"} \cup more \in SUBSET {"error", "exit"}
    BY <2>1
  <2> QED  BY <1>1, <1>3, <2>1, <2>2 DEF IInv, TypeOK
<1> QED  BY <1>2, <1>3 DEF Spawn

LEMMA InitSupervised == Init => IInv
<1> SUFFICES ASSUME Init PROVE IInv
  OBVIOUS
<1> USE RunnerAssumption
<1>1. TypeOK
  <2>1. /\ child \in [Children -> {"unborn", "compiling", "serving", "gone"}]
        /\ reports \in [Children -> SUBSET Events]
        /\ spawned \in 0 .. MaxSpawns /\ timers \in 0 .. 1
    BY DEF Init
  <2>2. restarting \in BOOLEAN /\ (restarting <=> timers = 1)
    <3>1. timers # 1  BY DEF Init
    <3> QED  BY <3>1 DEF Init
  <2>3. warm \in BOOLEAN /\ listening \in BOOLEAN /\ stopped \in BOOLEAN
    BY DEF Init
  <2>4. trigger \in [Triggers ->
          [at : {"unsent", "reading", "forwarded", "accepted", "failed", "refused", "cut"},
           run : 0 .. MaxSpawns]]
    BY DEF Init, Fresh
  <2> QED  BY <2>1, <2>2, <2>3, <2>4 DEF TypeOK
<1>2. Supervised
  BY DEF Init, Supervised, OnlyTheLastRuns, ReportersAreGone, RestartsAfterADeath, Alive
<1> QED  BY <1>1, <1>2 DEF IInv

(* What a request does is of no concern to the supervisor. *)
LEMMA HandlingKeepsTypes ==
  ASSUME IInv, NEW r \in Triggers, Handle(r)
  PROVE  IInv'
<1> USE RunnerAssumption DEF Children, At, ByRequest, supervisor
<1>1. UNCHANGED <<supervisor, warm, listening, stopped>>
  BY DEF Handle, Arrive, BodyEnds, Refuse, Forward, SimulatorAnswers, ConnectionReset,
     AckTimeout
<1>2. trigger' \in [Triggers ->
        [at : {"unsent", "reading", "forwarded", "accepted", "failed", "refused", "cut"},
         run : 0 .. MaxSpawns]]
  <2> USE DEF IInv, TypeOK
  <2>1. CASE Forward(r)
    <3>1. CASE trigger' = [trigger EXCEPT ![r].at = "failed"]
      BY <3>1
    <3>2. CASE \E c \in Children : trigger' = [trigger EXCEPT ![r] = [at |-> "forwarded", run |-> c]]
      BY <3>2
    <3> QED  BY <2>1, <3>1, <3>2 DEF Forward
  <2>2. CASE BodyEnds(r) \/ SimulatorAnswers(r)  BY <2>2 DEF BodyEnds, SimulatorAnswers
  <2>3. CASE Arrive(r)  BY <2>3 DEF Arrive
  <2>4. CASE Refuse(r)  BY <2>4 DEF Refuse
  <2>5. CASE ConnectionReset(r)  BY <2>5 DEF ConnectionReset
  <2>6. CASE AckTimeout(r)  BY <2>6 DEF AckTimeout
  <2> QED  BY <2>1, <2>2, <2>3, <2>4, <2>5, <2>6 DEF Handle
<1> QED  BY <1>1, <1>2 DEF IInv, TypeOK, Supervised, OnlyTheLastRuns, ReportersAreGone,
            RestartsAfterADeath, Alive

LEMMA NextSupervised == IInv /\ [Next]_vars => IInv'
<1> SUFFICES ASSUME IInv, [Next]_vars PROVE IInv'
  OBVIOUS
<1> USE RunnerAssumption
<1>1. CASE Start
  <2>1. /\ \A c \in Children : ~Alive(c)
        /\ \A c \in Children : reports[c] = {}
        /\ timers = 0
    BY <1>1 DEF Start, IInv, TypeOK, Supervised, OnlyTheLastRuns, ReportersAreGone,
       RestartsAfterADeath, Children
  <2>2. spawned < MaxSpawns
    BY <1>1 DEF Start
  <2> QED  BY <1>1, <2>1, <2>2, SpawnReplaces DEF Start, IInv, TypeOK, Supervised,
              OnlyTheLastRuns, ReportersAreGone, RestartsAfterADeath
<1>2. CASE Restart
  <2>1. /\ \A c \in Children : ~Alive(c)
        /\ \A c \in Children : reports[c] = {}
        /\ timers' = 0
    BY <1>2 DEF Restart, IInv, TypeOK, Supervised, RestartsAfterADeath
  <2>2. restarting' = FALSE /\ UNCHANGED <<warm, listening, stopped, trigger>> /\ Spawn
        /\ spawned < MaxSpawns
    BY <1>2 DEF Restart
  <2>3. restarting' \in BOOLEAN /\ (restarting' <=> timers' = 1)
    <3>1. timers' # 1  BY <2>1
    <3> QED  BY <2>2, <3>1
  <2>4. TypeOK'
    BY <2>1, <2>2, <2>3, SpawnReplaces DEF IInv, TypeOK
  <2> QED  BY <2>1, <2>2, <2>4, SpawnReplaces DEF IInv, Supervised,
              OnlyTheLastRuns, ReportersAreGone, RestartsAfterADeath
<1>3. ASSUME NEW c \in Children, NEW e \in Events, Report(c, e) PROVE IInv'
  <2>1. spawned = c /\ \A d \in Children : ~Alive(d)
    BY <1>3 DEF Report, IInv, Supervised, OnlyTheLastRuns, ReportersAreGone
  <2> QED  BY <1>3, <2>1 DEF Report, IInv, TypeOK, Supervised, OnlyTheLastRuns,
              ReportersAreGone, RestartsAfterADeath, Alive, Children
<1>4. ASSUME NEW c \in Children, Compiled(c) PROVE IInv'
  BY <1>4 DEF Compiled, IInv, TypeOK, Supervised, OnlyTheLastRuns, ReportersAreGone,
     RestartsAfterADeath, Alive, Children
<1>5. ASSUME NEW c \in Children, Dies(c) PROVE IInv'
  BY <1>5 DEF Dies, IInv, TypeOK, Supervised, OnlyTheLastRuns, ReportersAreGone,
     RestartsAfterADeath, Alive, Children, Events
<1>6. CASE Warms \/ Listen
  <2>1. /\ UNCHANGED <<child, reports, spawned, restarting, timers, stopped, trigger>>
        /\ warm' \in BOOLEAN /\ listening' \in BOOLEAN
    BY <1>6, Zenon DEF Warms, Listen, supervisor, IInv, TypeOK
  <2> QED  BY <2>1 DEF IInv, TypeOK, Supervised, OnlyTheLastRuns, ReportersAreGone,
              RestartsAfterADeath, Alive
<1>7. ASSUME NEW r \in Triggers, Handle(r) PROVE IInv'
  BY <1>7, HandlingKeepsTypes
<1>8. CASE Shutdown
  BY <1>8 DEF Shutdown, IInv, TypeOK, Supervised, OnlyTheLastRuns, ReportersAreGone,
     RestartsAfterADeath, Alive, Children
<1>9. CASE UNCHANGED vars
  BY <1>9 DEF vars, IInv, TypeOK, Supervised, OnlyTheLastRuns, ReportersAreGone,
     RestartsAfterADeath, Alive
<1> QED  BY <1>1, <1>2, <1>3, <1>4, <1>5, <1>6, <1>7, <1>8, <1>9
            DEF Next, Supervise, Halted

LEMMA AlwaysSupervised == Spec => []IInv
BY InitSupervised, NextSupervised, PTL DEF Spec

(* Every state of the runner host is of the types declared for it. *)
THEOREM RunnerTypes == Spec => []TypeOK
<1>1. IInv => TypeOK
  BY DEF IInv
<1> QED  BY <1>1, AlwaysSupervised, PTL

(* restartAfterFailure replaces a child that is known to be dead and only  *)
(* that one: for any number of children, two never run at once.            *)
THEOREM OnlyOneSimulator == Spec => []OneSimulator
<1>1. IInv => OneSimulator
  <2> SUFFICES ASSUME IInv PROVE OneSimulator
    OBVIOUS
  <2>1. {c \in Children : Alive(c)} \subseteq {spawned}
    BY DEF IInv, Supervised, OnlyTheLastRuns
  <2>2. IsFiniteSet({spawned}) /\ Cardinality({spawned}) = 1
    BY FS_Singleton
  <2>3. /\ IsFiniteSet({c \in Children : Alive(c)})
        /\ Cardinality({c \in Children : Alive(c)}) <= Cardinality({spawned})
    BY <2>1, <2>2, FS_Subset
  <2> QED  BY <2>2, <2>3 DEF OneSimulator
<1> QED  BY <1>1, AlwaysSupervised, PTL
=============================================================================
