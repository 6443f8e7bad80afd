----------------------------- MODULE MCSyncTask -----------------------------
(* An instance of SyncTask for TLC. *)
EXTENDS SyncTask

\* a plain mapping between two regular expressions that overlap
Overlapping == <<{"app", "db"}, {"app"}, {"db"}>>

\* The plain mapping has a path of its own in 'to'.
Mapped == <<[r \in Repos |-> r], [r \in Repos |-> "copy"], [r \in Repos |-> r]>>

Known(ecr, gcp, auth, refresh) ==
    [ecr |-> ecr, account |-> ecr, gcp |-> gcp, auth |-> auth, refresh |-> refresh]

PlainRegistry == Known(FALSE, FALSE, "given", NoRefresh)
Google == Known(FALSE, TRUE, "absent", NoRefresh)
ECR(refresh) == Known(TRUE, FALSE, "absent", refresh)

SourceLocations == {Google, ECR(2), Known(FALSE, TRUE, "given", NoRefresh)}
\* The last one is refused: only for an ECR can auth-refresh be set.
TargetLocations ==
    {PlainRegistry, ECR(0), ECR(NoRefresh), Known(FALSE, FALSE, "given", 1)}
=============================================================================
