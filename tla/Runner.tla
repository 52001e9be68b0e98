------------------------------- MODULE Runner -------------------------------
(***************************************************************************)
(* The runner host: the supervisor that keeps one `cre workflow simulate   *)
(* --listen` child alive (simulator.js) and the gateway that forwards the  *)
(* proxy's triggers to it (server.js, gateway.js, request-body.js).        *)
(*                                                                         *)
(* A child ends by itself or never starts; Node reports the first with an  *)
(* `exit` event and the second with an `error` event that may be followed  *)
(* by an `exit`, both within the restart delay.  Reports are delivered to  *)
(* the event loop after the fact, so the supervisor restarts a child it    *)
(* has known to be dead for a while and the gateway may forward to it      *)
(* meanwhile.                                                              *)
(*                                                                         *)
(* One readiness promise exists per spawn, but every resolver - banner,    *)
(* warm-up timer, failure - resolves the current one and only the first is *)
(* ever awaited, by main.  `warm` is that first promise.                   *)
(***************************************************************************)
EXTENDS Naturals, FiniteSets

CONSTANTS Triggers,     \* trigger requests the proxy may send
          MaxSpawns     \* bound: children ever spawned; the last one stays up

ASSUME RunnerAssumption == MaxSpawns \in Nat \ {0} /\ IsFiniteSet(Triggers)

VARIABLES child,        \* child[c]: the state of the c-th child spawned
          reports,      \* reports[c]: its events not yet delivered
          spawned,      \* children spawned so far; the current one is the last
          restarting,   \* the supervisor's guard against a second restart
          timers,       \* restart timers running
          warm,         \* the first readiness promise is resolved
          listening,    \* the HTTP server accepts triggers
          stopped,      \* SIGTERM or SIGINT was handled: the process is gone
          trigger       \* trigger[r]: where request r is

vars == <<child, reports, spawned, restarting, timers, warm, listening,
          stopped, trigger>>
supervisor == <<child, reports, spawned, restarting, timers>>

Children == 1 .. MaxSpawns
Events == {"error", "exit"}
Fresh == [at |-> "unsent", run |-> 0]

TypeOK ==
  /\ child \in [Children -> {"unborn", "compiling", "serving", "gone"}]
  /\ reports \in [Children -> SUBSET Events]
  /\ spawned \in 0 .. MaxSpawns
  /\ restarting \in BOOLEAN /\ timers \in 0 .. 1
  /\ restarting <=> timers = 1
  /\ warm \in BOOLEAN /\ listening \in BOOLEAN /\ stopped \in BOOLEAN
  /\ trigger \in [Triggers ->
       [at : {"unsent", "reading", "forwarded", "accepted", "failed", "refused", "cut"},
        run : 0 .. MaxSpawns]]

Alive(c) == child[c] \in {"compiling", "serving"}
Serving == \E c \in Children : child[c] = "serving"
Answered(r) == trigger[r].at \in {"accepted", "failed", "refused", "cut"}

-----------------------------------------------------------------------------
(***************************************************************************)
(* spawnChild: the child runs, or could not be started at all.             *)
(***************************************************************************)
Spawn ==
  /\ spawned' = spawned + 1
  /\ \/ /\ child' = [child EXCEPT ![spawned + 1] = "compiling"]
        /\ UNCHANGED reports
     \/ /\ spawned + 1 < MaxSpawns
        /\ child' = [child EXCEPT ![spawned + 1] = "gone"]
        /\ \E more \in SUBSET {"exit"} :
             reports' = [reports EXCEPT ![spawned + 1] = {"error"} \cup more]

Init ==
  /\ child = [c \in Children |-> "unborn"]
  /\ reports = [c \in Children |-> {}]
  /\ spawned = 0
  /\ restarting = FALSE /\ timers = 0
  /\ warm = FALSE /\ listening = FALSE /\ stopped = FALSE
  /\ trigger = [r \in Triggers |-> Fresh]

(* main: start() spawns the first child. *)
Start ==
  /\ spawned = 0 /\ ~stopped
  /\ Spawn
  /\ UNCHANGED <<restarting, timers, warm, listening, stopped, trigger>>

(* The child has compiled the workflow and bound the trigger port. *)
Compiled(c) ==
  /\ child[c] = "compiling"
  /\ child' = [child EXCEPT ![c] = "serving"]
  /\ UNCHANGED <<reports, spawned, restarting, timers, warm, listening, stopped, trigger>>

(* The banner is seen on stdout, or the warm-up delay is over. *)
Warms ==
  /\ spawned > 0 /\ ~warm /\ ~stopped
  /\ warm' = TRUE
  /\ UNCHANGED <<supervisor, listening, stopped, trigger>>

(* waitUntilReady is over: the server starts to listen. *)
Listen ==
  /\ warm /\ ~listening /\ ~stopped
  /\ listening' = TRUE
  /\ UNCHANGED <<supervisor, warm, stopped, trigger>>

(* A child exits: an expired login, a broken workflow, a crash. *)
Dies(c) ==
  /\ Alive(c) /\ c < MaxSpawns
  /\ child' = [child EXCEPT ![c] = "gone"]
  /\ reports' = [reports EXCEPT ![c] = @ \cup {"exit"}]
  /\ UNCHANGED <<spawned, restarting, timers, warm, listening, stopped, trigger>>

-----------------------------------------------------------------------------
(* A slip: every event of a failure schedules a restart of its own. *)
ReportUnguarded(c, e) ==
  /\ e \in reports[c] /\ ~stopped
  /\ reports' = [reports EXCEPT ![c] = @ \ {e}]
  /\ warm' = TRUE
  /\ restarting' = TRUE /\ timers' = timers + 1
  /\ UNCHANGED <<child, spawned, listening, stopped, trigger>>

(***************************************************************************)
(* restartAfterFailure, for an exit or an error of any child.              *)
(***************************************************************************)
Report(c, e) ==
  /\ e \in reports[c] /\ ~stopped
  /\ reports' = [reports EXCEPT ![c] = @ \ {e}]
  /\ warm' = TRUE
  /\ restarting' = TRUE
  /\ timers' = IF restarting THEN timers ELSE timers + 1
  /\ UNCHANGED <<child, spawned, listening, stopped, trigger>>

(* A slip: the guard is not taken back when the timer fires. *)
RestartStillMarked ==
  /\ timers > 0 /\ ~stopped /\ spawned < MaxSpawns
  /\ \A c \in Children : reports[c] = {}
  /\ timers' = timers - 1
  /\ Spawn
  /\ UNCHANGED <<restarting, warm, listening, stopped, trigger>>

(***************************************************************************)
(* The 3 s timer fires, after every event of the failure has been          *)
(* delivered.  (One that fires with nothing left to spawn is cut by the    *)
(* bound.)                                                                 *)
(***************************************************************************)
Restart ==
  /\ timers > 0 /\ ~stopped /\ spawned < MaxSpawns
  /\ \A c \in Children : reports[c] = {}
  /\ timers' = timers - 1
  /\ restarting' = FALSE
  /\ Spawn
  /\ UNCHANGED <<warm, listening, stopped, trigger>>

-----------------------------------------------------------------------------
At(r, place) == [trigger EXCEPT ![r].at = place]
ByRequest == UNCHANGED <<supervisor, warm, listening, stopped>>

(* POST /workflows/execute: the body is buffered before anything is checked. *)
Arrive(r) ==
  /\ listening /\ ~stopped /\ trigger[r].at = "unsent"
  /\ trigger' = At(r, "reading")
  /\ ByRequest

(* 413, or a client that breaks off: nobody is left to answer. *)
BodyEnds(r) ==
  /\ trigger[r].at = "reading" /\ ~stopped
  /\ \E place \in {"refused", "cut"} : trigger' = At(r, place)
  /\ ByRequest

(* 400, 401 or 404: envelope, token, method, input or workflow id. *)
Refuse(r) ==
  /\ trigger[r].at = "reading" /\ ~stopped
  /\ trigger' = At(r, "refused")
  /\ ByRequest

(* The body is forwarded to whoever holds the trigger port. *)
Forward(r) ==
  /\ trigger[r].at = "reading" /\ ~stopped
  /\ \/ /\ ~Serving
        /\ trigger' = At(r, "failed")
     \/ \E c \in Children :
          /\ child[c] = "serving"
          /\ trigger' = [trigger EXCEPT ![r] = [at |-> "forwarded", run |-> c]]
  /\ ByRequest

(* The simulator answers: it took the trigger, or refuses it with an error. *)
SimulatorAnswers(r) ==
  /\ trigger[r].at = "forwarded" /\ ~stopped
  /\ child[trigger[r].run] = "serving"
  /\ \E place \in {"accepted", "failed"} : trigger' = At(r, place)
  /\ ByRequest

(* The simulator is gone and the connection with it. *)
ConnectionReset(r) ==
  /\ trigger[r].at = "forwarded" /\ ~stopped
  /\ child[trigger[r].run] = "gone"
  /\ trigger' = At(r, "failed")
  /\ ByRequest

(* A slip: the forward has no timeout. *)
AckTimeoutNever(r) ==
  /\ FALSE
  /\ trigger' = At(r, "accepted")
  /\ ByRequest

(* No answer within triggerAckTimeoutMs counts as accepted. *)
AckTimeout(r) ==
  /\ trigger[r].at = "forwarded" /\ ~stopped
  /\ trigger' = At(r, "accepted")
  /\ ByRequest

(***************************************************************************)
(* SIGTERM: the server closes, the child is killed and the process exits,  *)
(* which breaks every open connection.                                     *)
(***************************************************************************)
Shutdown ==
  /\ ~stopped
  /\ stopped' = TRUE /\ listening' = FALSE
  /\ child' = [c \in Children |-> IF Alive(c) THEN "gone" ELSE child[c]]
  /\ trigger' = [r \in Triggers |->
       IF trigger[r].at \in {"reading", "forwarded"}
         THEN [trigger[r] EXCEPT !.at = "cut"] ELSE trigger[r]]
  /\ UNCHANGED <<reports, spawned, restarting, timers, warm>>

(* A host that was shut down stays so. *)
Halted == stopped /\ UNCHANGED vars

Supervise ==
  \/ Start \/ Warms \/ Listen \/ Restart
  \/ \E c \in Children : Compiled(c) \/ \E e \in Events : Report(c, e)
Handle(r) ==
  Arrive(r) \/ BodyEnds(r) \/ Refuse(r) \/ Forward(r)
    \/ SimulatorAnswers(r) \/ ConnectionReset(r) \/ AckTimeout(r)
Next ==
  \/ Supervise
  \/ \E c \in Children : Dies(c)
  \/ \E r \in Triggers : Handle(r)
  \/ Shutdown \/ Halted

(***************************************************************************)
(* The event loop delivers events and fires timers, a child that is left   *)
(* alone finishes compiling, a body ends, and a request timer fires.  No   *)
(* child has to die and no simulator has to answer.                        *)
(***************************************************************************)
Fairness ==
  /\ WF_vars(Start) /\ WF_vars(Restart)
  /\ \A c \in Children : WF_vars(Compiled(c)) /\ \A e \in Events : WF_vars(Report(c, e))
  /\ \A r \in Triggers :
       /\ WF_vars(Forward(r) \/ BodyEnds(r) \/ Refuse(r))
       /\ WF_vars(AckTimeout(r) \/ ConnectionReset(r))
Spec == Init /\ [][Next]_vars /\ Fairness

-----------------------------------------------------------------------------
(* However exits and errors interleave with the restart timer, two         *)
(* simulators never run at once: they would contend for the trigger port   *)
(* (simulator.js:62-77).                                                   *)
OneSimulator == Cardinality({c \in Children : Alive(c)}) <= 1

(* A simulator that keeps failing is replaced until one serves, unless the *)
(* host is stopped (simulator.js:67-76).                                   *)
ComesBack == []<>(stopped \/ Serving)

(* A trigger that arrived is answered whatever becomes of the simulator:   *)
(* a dead one is a failure, a silent one an acceptance (gateway.js:112-142).*)
TriggersAreAnswered == \A r \in Triggers : trigger[r].at = "reading" ~> Answered(r)
=============================================================================
