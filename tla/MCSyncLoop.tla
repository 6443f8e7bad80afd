----------------------------- MODULE MCSyncLoop -----------------------------
(* Instances of SyncLoop for TLC. The unit of time is a second, but scaled  *)
(* down: what matters is which clocks reach their end first.                *)
EXTENDS SyncLoop

\* a one-off task after a periodic one, and one that is filtered out
MixedTasks == <<2, 0, 2>>

\* two periodic tasks
TwoPeriodic == <<1, 1>>

\* a single periodic task
OnePeriodic == <<2>>
=============================================================================
