----------------------------- MODULE ProcessLife -----------------------------
(***************************************************************************)
(* The life of the proxy's process as the other modules assume it: what is *)
(* configured changes only while no task and no server runs, the task is   *)
(* taken up only by a running process, a stopping process ends in order    *)
(* only when the task is over, and the health endpoint says which of the   *)
(* two it is.  CertQueue, Submission and Metrics each have Boot, Cancel,   *)
(* Exit and Crash of this shape; Lifecycle implements it.                  *)
(***************************************************************************)
VARIABLES
    life,       \* down, running or stopping
    working,    \* the scheduler's task is under way
    settings,   \* the stored configuration
    health      \* the last answer of the health endpoint, or none

lifeVars == <<life, working, settings, health>>

PInit == life = "down" /\ working = FALSE /\ health = "none"

Configure == life = "down" /\ UNCHANGED <<life, working, health>>

Start ==
    /\ life = "down" /\ life' = "running"
    /\ UNCHANGED <<working, settings, health>>

Work ==
    /\ life = "running" /\ ~working /\ working'
    /\ UNCHANGED <<life, settings, health>>

Rest == working /\ ~working' /\ UNCHANGED <<life, settings, health>>

Probe ==
    /\ \/ life = "running" /\ health' = "ok"
       \/ life = "stopping" /\ health' = "unavailable"
    /\ UNCHANGED <<life, working, settings>>

Cancel ==
    /\ life = "running" /\ life' = "stopping"
    /\ UNCHANGED <<working, settings, health>>

Down == life' = "down" /\ ~working' /\ health' = "none" /\ UNCHANGED settings

Exit == life = "stopping" /\ ~working /\ Down

\* An early exit or a death at any moment.
Die == life \in {"running", "stopping"} /\ Down

PNext == Configure \/ Start \/ Work \/ Rest \/ Probe \/ Cancel \/ Exit \/ Die

PSpec == PInit /\ [][PNext]_lifeVars
=============================================================================
