----------------------------- MODULE Locations -----------------------------
(***************************************************************************)
(* A location as far as its credentials go: what validate() of a location  *)
(* (internal/pkg/sync/location.go) makes of the registry and the settings  *)
(* for authentication.                                                     *)
(***************************************************************************)
EXTENDS Integers

CONSTANT MinInterval    \* minimumAuthRefreshInterval

\* The value of auth-refresh when it is not set
NoRefresh == -1

\* Whether the registry is an ECR, and if so whether account and region are
\* known; whether it is one of Google's; and what the config says about it.
Location == [ecr : BOOLEAN, account : BOOLEAN, gcp : BOOLEAN,
             auth : {"none", "given", "absent"}, refresh : Nat \cup {NoRefresh}]

\* auth-refresh is for ECR only.
Accepted(l) == l.refresh # NoRefresh => l.ecr

\* An interval that is too short, zero included, is raised to the minimum.
Interval(l) == IF l.refresh < MinInterval THEN MinInterval ELSE l.refresh

\* The refresher that has anything to do for the location
Refresher(l) ==
    CASE l.ecr /\ l.account /\ l.refresh # NoRefresh -> "ecr"
      [] ~l.ecr /\ l.gcp /\ l.auth = "absent" -> "gcr"
      [] OTHER -> "none"
=============================================================================
