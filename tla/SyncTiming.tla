----------------------------- MODULE SyncTiming -----------------------------
(***************************************************************************)
(* When periodic tasks are synced: SyncLoop under the assumption that the  *)
(* goroutines are quick, that is, that no time passes while one of them    *)
(* can take a step. Only a sync takes time. Two clocks of an observer tell *)
(* what the users of dregsy see, the gaps between the syncs of a task.     *)
(***************************************************************************)
EXTENDS SyncLoop

VARIABLES
    since,      \* since[t]: time since the last sync of t ended, capped
    idle        \* idle[t]: the part of it that main spent waiting in its loop

timingVars == <<vars, since, idle>>

\* The clocks are capped where the properties no longer tell values apart.
Cap(t) == 2 * Interval[t]

Advance(clock) == [t \in Tasks |-> IF clock[t] < Cap(t) THEN clock[t] + 1
                                                        ELSE clock[t]]

\* Some goroutine can move: main before or after its loop or in a ready case
\* of its select, or that of a task.
Ready ==
    \/ pc \in {"prepare", "oneoff", "stop"}
    \/ pc = "await" /\ gpc[cur] = "exited"
    \/ pc = "loop" /\ \/ \E t \in Tasks : gpc[t] = "send"
                      \/ sigs # None
                      \/ notes # <<>>
                      \/ timer = 0
                      \/ client = "sending"
    \/ \E t \in Tasks : gpc[t] = "select" /\ (tick[t] \/ exit[t])

TimingInit ==
    /\ Init
    /\ since = [t \in Tasks |-> Cap(t)]
    /\ idle = [t \in Tasks |-> 0]

TimedPass ==
    /\ ~Ready
    /\ Pass
    /\ since' = Advance(since)
    /\ idle' = IF pc = "loop" THEN Advance(idle) ELSE idle

TimedFinish(bad) ==
    /\ FinishSync(bad)
    /\ since' = [since EXCEPT ![cur] = 0]
    /\ idle' = [idle EXCEPT ![cur] = 0]

TimedOther ==
    /\ Step
    /\ UNCHANGED <<since, idle>>

\* After a restart the observer looks at the tasks of the new config.
TimedNewRound ==
    /\ NewRound
    /\ since' = [t \in Tasks |-> Cap(t)]
    /\ idle' = [t \in Tasks |-> 0]

TimingNext ==
    \/ TimedPass \/ TimedOther \/ TimedNewRound
    \/ \E bad \in BOOLEAN : TimedFinish(bad)

TimingSpec == TimingInit /\ [][TimingNext]_timingVars

-----------------------------------------------------------------------------
(* Properties.                                                             *)

TimingTypeOK ==
    /\ TypeOK
    /\ \A t \in Tasks : since[t] \in 0 .. Cap(t) /\ idle[t] \in 0 .. Cap(t)

\* A task is never left waiting for more than one and a half intervals of
\* the time that main has to spare: skipping the fires that came too soon
\* costs at most half an interval.
GapBound ==
    pc = "loop" => \A t \in Periodic : 2 * idle[t] <= 3 * Interval[t]

\* However long a sync takes, and however many fires it left behind, the
\* next sync of that task starts half an interval after its end or later.
NoBurst ==
    [][\A t \in Periodic :
          pc = "loop" /\ pc' = "sync" /\ cur' = t
             => 2 * since[t] >= Interval[t]]_timingVars
=============================================================================
