---------------------------- MODULE Credentials ----------------------------
(***************************************************************************)
(* The credentials of the two locations of a task (location.go) and their  *)
(* refreshers (internal/pkg/auth). Credentials for ECR are replaced when   *)
(* the interval from the config has passed, those for GCR when the expiry  *)
(* has come that Google gave with them. How long the registry accepts them *)
(* is another matter, and the refreshers do not ask.                       *)
(***************************************************************************)
EXTENDS Locations

CONSTANT Lifetime       \* a registry accepts credentials for at most so long

ASSUME LifetimeAssumption == Lifetime \in Nat \ {0} /\ MinInterval \in Nat \ {0}

Sides == {"source", "target"}

VARIABLES
    loc,        \* loc[s]: the location on side s, as configured
    life,       \* life[s]: for how long the registry will accept its credentials
    expiry      \* expiry[s]: time until rf.expiry

credVars == <<loc, life, expiry>>

CredInit ==
    /\ life = [s \in Sides |-> 0]
    /\ expiry = [s \in Sides |-> 0]

-----------------------------------------------------------------------------
(* Refresh(). A definition whose name ends in _ and a word is a mutant of  *)
(* the definition that follows it: the bug the word is about, which the    *)
(* properties must be able to tell from the code.                          *)

\* rf.expiry is not in the future, as at the start.
Required(s) == Refresher(loc[s]) # "none" /\ expiry[s] = 0

\* New credentials from AWS are good for their full lifetime, and the refresher
\* counts the interval. Those from Google may be older, and it is told how long
\* they have to live.
Renewed(s) ==
    IF Refresher(loc[s]) = "ecr"
    THEN {[life |-> Lifetime, expiry |-> Interval(loc[s])]}
    ELSE {[life |-> n, expiry |-> n] : n \in 1 .. Lifetime}

\* creds.Refresh() succeeds, also because there is nothing to do.
Refresh(s) ==
    IF Required(s)
    THEN \E new \in Renewed(s) :
             /\ life' = [life EXCEPT ![s] = new.life]
             /\ expiry' = [expiry EXCEPT ![s] = new.expiry]
             /\ UNCHANGED loc
    ELSE UNCHANGED credVars

\* It fails: everything stays as it is, so that the next call will try again.
RefreshFails_Counted(s) ==
    /\ Required(s)
    /\ expiry' = [expiry EXCEPT ![s] = Lifetime]
    /\ UNCHANGED <<loc, life>>
RefreshFails(s) ==
    /\ Required(s)
    /\ UNCHANGED credVars

\* Time passes, for the registry and the refresher alike.
Age ==
    /\ life' = [s \in Sides |-> IF life[s] > 0 THEN life[s] - 1 ELSE 0]
    /\ expiry' = [s \in Sides |-> IF expiry[s] > 0 THEN expiry[s] - 1 ELSE 0]
    /\ UNCHANGED loc

-----------------------------------------------------------------------------

CredTypeOK ==
    /\ loc \in [Sides -> Location]
    /\ life \in [Sides -> 0 .. Lifetime]
    /\ expiry \in [Sides -> Nat]

\* For how long after a refresh, done or not required, credentials are accepted
\* in any case: what the lifetime leaves of the interval. Google's may expire
\* right after the refresher has found them to be valid.
Margin(s) ==
    IF Refresher(loc[s]) = "ecr" THEN Lifetime - Interval(loc[s]) ELSE 0
=============================================================================
