---------------------------- MODULE EvidenceStore ----------------------------
(***************************************************************************)
(* What the proxy promises about the evidence of one paid call: once it is *)
(* kept it stays readable for the filing window, its first disclosure only *)
(* ever moves the deadline away, and nothing is read at the deadline or    *)
(* after it.                                                               *)
(***************************************************************************)
EXTENDS Naturals

CONSTANTS FilingTtl, AdjudicationTtl, MaxTime

VARIABLES
    now,
    keptUntil,  \* the filing promise, 0 before the evidence is kept
    deadline,   \* when it stops being readable, 0 while it is not there
    disclosed   \* it has been disclosed once

storeVars == <<now, keptUntil, deadline, disclosed>>

Init ==
    /\ now = 1
    /\ keptUntil = 0 /\ deadline = 0 /\ disclosed = FALSE

Keep ==
    /\ keptUntil = 0
    /\ keptUntil' = now + FilingTtl
    /\ deadline' = now + FilingTtl
    /\ UNCHANGED <<now, disclosed>>

Disclose ==
    /\ now < deadline /\ ~disclosed
    /\ disclosed' = TRUE
    /\ \E until \in {deadline, now + AdjudicationTtl} :
           /\ until >= deadline /\ until >= now + AdjudicationTtl
           /\ deadline' = until
    /\ UNCHANGED <<now, keptUntil>>

Forget ==
    /\ deadline # 0 /\ keptUntil <= now
    /\ deadline' = 0 /\ disclosed' = FALSE
    /\ UNCHANGED <<now, keptUntil>>

Tick ==
    /\ now < MaxTime
    /\ now' = now + 1
    /\ UNCHANGED <<keptUntil, deadline, disclosed>>

Next == Keep \/ Disclose \/ Forget \/ Tick

Spec == Init /\ [][Next]_storeVars
=============================================================================
