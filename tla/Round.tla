------------------------------- MODULE Round -------------------------------
(***************************************************************************)
(* What a round of dregsy promises, whatever goes on inside: the time from *)
(* loading the config to the restart or the end of the process. One task   *)
(* is synced at a time. First come the one-off tasks, each of them once,   *)
(* then the periodic ones, and none any more once the round is about to    *)
(* end. After it comes the next round, if there is to be one.              *)
(***************************************************************************)
CONSTANTS OneOffs, Periodic, NoTask

VARIABLES
    phase,      \* "starting", "serving", "ending" or "over"
    active,     \* the task that is being synced, or NoTask
    due,        \* the one-off tasks yet to be synced
    again       \* the round was ended for a new one to begin

round == <<phase, active, due, again>>

Init ==
    /\ phase = "starting"
    /\ active = NoTask
    /\ due = OneOffs
    /\ again = FALSE

SyncOnce(t) ==
    /\ phase = "starting" /\ active = NoTask
    /\ t \in due
    /\ active' = t
    /\ due' = due \ {t}
    /\ UNCHANGED <<phase, again>>

SyncPeriodic(t) ==
    /\ phase = "serving" /\ active = NoTask
    /\ t \in Periodic
    /\ active' = t
    /\ UNCHANGED <<phase, due, again>>

Synced ==
    /\ active # NoTask
    /\ active' = NoTask
    /\ UNCHANGED <<phase, due, again>>

Serve ==
    /\ phase = "starting" /\ active = NoTask
    /\ due = {}
    /\ phase' = IF Periodic = {} THEN "ending" ELSE "serving"
    /\ UNCHANGED <<active, due, again>>

Leave ==
    /\ phase = "serving" /\ active = NoTask
    /\ phase' = "ending"
    /\ again' \in BOOLEAN
    /\ UNCHANGED <<active, due>>

End ==
    /\ phase = "ending"
    /\ phase' = "over"
    /\ UNCHANGED <<active, due, again>>

\* Before it serves, a round may fail to start, or the process be killed.
Abort ==
    /\ phase = "starting"
    /\ phase' = "over"
    /\ active' = NoTask
    /\ due' = {}
    /\ UNCHANGED again

\* A restart is a full restart: the one-off tasks are due again.
Restart ==
    /\ phase = "over"
    /\ again
    /\ phase' = "starting"
    /\ due' = OneOffs
    /\ again' = FALSE
    /\ UNCHANGED active

Next ==
    \/ \E t \in OneOffs : SyncOnce(t)
    \/ \E t \in Periodic : SyncPeriodic(t)
    \/ Synced \/ Serve \/ Leave \/ End \/ Abort \/ Restart

Spec == Init /\ [][Next]_round
=============================================================================
