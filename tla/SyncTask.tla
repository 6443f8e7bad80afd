------------------------------ MODULE SyncTask ------------------------------
(***************************************************************************)
(* The body of syncTask (internal/pkg/sync/sync.go), run after run: the    *)
(* loop over the mappings of a task and, inside, over the image references *)
(* a mapping stands for. Every call that leaves the process may fail, and  *)
(* what happens next depends on which one it was. Credentials grow old     *)
(* meanwhile, and others create and remove target repositories.            *)
(*                                                                         *)
(* In SyncLoop, Begin is BeginSync and Finish is FinishSync(failed).       *)
(***************************************************************************)
EXTENDS Credentials

CONSTANTS
    Mappings,   \* number of mappings of the task
    Repos,      \* the repositories a source registry may have
    From,       \* From[m]: those of them mapping m is about
    Regexp,     \* the mappings with a regular expression in 'from'
    Paths,      \* the repositories a target registry may have
    To,         \* To[m][r]: where mapping m puts r
    Sources,    \* the locations that may be the source of the task
    Targets     \* the locations that may be its target

MappingIds == 1 .. Mappings

ASSUME MappingsAssumption == Mappings \in Nat
ASSUME FromAssumption == From \in [MappingIds -> SUBSET Repos]
ASSUME RegexpAssumption == Regexp \subseteq MappingIds
ASSUME ToAssumption == To \in [MappingIds -> [Repos -> Paths]]
ASSUME LocationsAssumption ==
    Sources \subseteq Location /\ Targets \subseteq Location

VARIABLES
    pc,         \* where syncTask is
    m,          \* the mapping it works on; past the last one at the end
    refs,       \* the references of m that it has yet to take up
    ref,        \* the set of the one it works on, or empty
    failed,     \* t.failed
    existing,   \* the repositories of the target registry
    (* history of the current, or else the last run *)
    wanted,     \* wanted[m]: the references mapping m stands for
    tried,      \* the pairs <<m, ref>> the relay has been called with
    synced,     \* those of them it has synced
    dropped,    \* the mappings that were given up, by the step that failed
    spent       \* time since mapping m was taken up, Lifetime at most

refVars == <<refs, ref>>
resultVars == <<tried, synced, dropped>>
vars == <<credVars, pc, m, refVars, failed, existing, wanted, resultVars, spent>>

Init ==
    /\ \E s \in Sources, t \in Targets :
          /\ Accepted(s) /\ Accepted(t)
          /\ loc = [side \in Sides |-> IF side = "source" THEN s ELSE t]
    /\ CredInit
    /\ pc = "idle"
    /\ m = 0
    /\ refs = {}
    /\ ref = {}
    /\ failed = FALSE
    /\ existing \in SUBSET Paths
    /\ wanted = [i \in MappingIds |-> {}]
    /\ tried = {}
    /\ synced = {}
    /\ dropped = {}
    /\ spent = 0

-----------------------------------------------------------------------------

\* A definition whose name ends in _ and a word is a mutant of the definition
\* that follows it: the bug the word is about, which the properties must be
\* able to tell from the code.

\* 'continue' in the outer loop, or the end of the inner one
NextMapping_SkipOne ==
    /\ pc' = "mapping"
    /\ m' = m + 2
    /\ refs' = {}
    /\ ref' = {}
NextMapping ==
    /\ pc' = "mapping"
    /\ m' = m + 1
    /\ refs' = {}
    /\ ref' = {}

\* t.fail(true), with the loop going on at the next mapping
GiveUp_Retry(step) ==
    /\ failed' = TRUE
    /\ dropped' = dropped \cup {<<m, step>>}
    /\ pc' = "mapping"
    /\ UNCHANGED <<m, refVars, existing, wanted, tried, synced>>
GiveUp(step) ==
    /\ failed' = TRUE
    /\ dropped' = dropped \cup {<<m, step>>}
    /\ NextMapping
    /\ UNCHANGED <<existing, wanted, tried, synced>>

GoOn(place) ==
    /\ pc' = place
    /\ UNCHANGED <<m, refVars, failed, existing, wanted, resultVars>>

\* A run starts with a clean slate.
Reset_Forgotten == UNCHANGED failed
Reset == failed' = FALSE

\* The iteration over refs goes on after r.
Remaining_Break(r) == {}
Remaining(r) == refs \ {r}

Begin ==
    /\ pc = "idle"
    /\ pc' = "mapping"
    /\ m' = 1
    /\ refs' = {}
    /\ ref' = {}
    /\ Reset
    /\ wanted' = [i \in MappingIds |-> {}]
    /\ tried' = {}
    /\ synced' = {}
    /\ dropped' = {}
    /\ UNCHANGED <<credVars, existing, spent>>

\* t.Source.RefreshAuth()
RefreshSource ==
    /\ pc = "mapping"
    /\ m \in MappingIds
    /\ spent' = 0
    /\ \/ Refresh("source") /\ GoOn("target auth")
       \/ RefreshFails("source") /\ GiveUp("auth")

\* t.Target.RefreshAuth()
RefreshTarget ==
    /\ pc = "target auth"
    /\ UNCHANGED spent
    /\ \/ Refresh("target") /\ GoOn("list")
       \/ RefreshFails("target") /\ GiveUp("auth")

\* What t.mappingRefs(m) may find: any part of the repositories the expression
\* selects, or else the single reference in 'from'
Found == IF m \in Regexp THEN SUBSET From[m] ELSE {From[m]}

\* The catalog lister refreshes the credentials of the source once more, unless
\* the list is cached. The one for ECR does not use them.
ListerRefreshes ==
    IF m \in Regexp /\ ~loc["source"].ecr
    THEN Refresh("source") \/ UNCHANGED credVars
    ELSE UNCHANGED credVars

MappingRefs ==
    /\ pc = "list"
    /\ UNCHANGED spent
    /\ \/ \E found \in Found :
             /\ refs' = found
             /\ wanted' = [wanted EXCEPT ![m] = found]
             /\ pc' = "ref"
             /\ ListerRefreshes
             /\ UNCHANGED <<m, ref, failed, existing, resultVars>>
       \/ m \in Regexp /\ GiveUp("list") /\ ListerRefreshes

\* The inner loop is done.
MappingDone ==
    /\ pc = "ref"
    /\ refs = {}
    /\ NextMapping
    /\ UNCHANGED <<credVars, failed, existing, wanted, resultVars, spent>>

\* The next reference, in the order of the registry. Unless the target is an
\* ECR, t.ensureTargetExists() has nothing to do.
TakeRef ==
    /\ pc = "ref"
    /\ \E r \in refs :
          /\ ref' = {r}
          /\ refs' = Remaining(r)
    /\ pc' = IF loc["target"].ecr THEN "describe" ELSE "relay"
    /\ UNCHANGED <<credVars, m, failed, existing, wanted, resultVars, spent>>

\* The repository in the target of the reference at hand
Target == {To[m][r] : r \in ref}

\* The request whether the target exists fails for a reason other than that it
\* does not, which breaks the inner loop.
DescribeFails_Ignored == GoOn("relay")
DescribeFails == GiveUp("target")

Describe ==
    /\ pc = "describe"
    /\ \/ GoOn(IF Target \subseteq existing THEN "relay" ELSE "create")
       \/ DescribeFails
    /\ UNCHANGED <<credVars, spent>>

\* Creating it fails as well if somebody else was quicker.
Create ==
    /\ pc = "create"
    /\ \/ /\ existing \cap Target = {}
          /\ existing' = existing \cup Target
          /\ pc' = "relay"
          /\ UNCHANGED <<m, refVars, failed, wanted, resultVars>>
       \/ GiveUp("target")
    /\ UNCHANGED <<credVars, spent>>

CreateECRTarget == Describe \/ Create

\* s.relay.Sync(). Its failure is noted, and the inner loop goes on.
RelaySync ==
    /\ pc = "relay"
    /\ pc' = "ref"
    /\ tried' = tried \cup ({m} \X ref)
    /\ \/ synced' = synced \cup ({m} \X ref) /\ UNCHANGED failed
       \/ failed' = TRUE /\ UNCHANGED synced
    /\ ref' = {}
    /\ UNCHANGED <<credVars, m, refs, existing, wanted, dropped, spent>>

Finish ==
    /\ pc = "mapping"
    /\ m \notin MappingIds
    /\ GoOn("idle")
    /\ UNCHANGED <<credVars, spent>>

-----------------------------------------------------------------------------

\* Others create target repositories at any time, and remove them between runs.
Others ==
    /\ loc["target"].ecr
    /\ \E p \in Paths :
          \/ existing' = existing \cup {p}
          \/ pc = "idle" /\ existing' = existing \ {p}
    /\ UNCHANGED <<credVars, pc, m, refVars, failed, wanted, resultVars, spent>>

\* Time passes, during calls and between runs.
Pass ==
    /\ Age
    /\ spent' = IF spent < Lifetime THEN spent + 1 ELSE spent
    /\ UNCHANGED <<pc, m, refVars, failed, existing, wanted, resultVars>>

SyncTask ==
    \/ RefreshSource \/ RefreshTarget \/ MappingRefs \/ MappingDone
    \/ TakeRef \/ CreateECRTarget \/ RelaySync \/ Finish

Next == Begin \/ SyncTask \/ Others \/ Pass

\* The loops run on by themselves once started; that the calls they make
\* return is an assumption, for the code sets no time limit to them.
Fairness == WF_vars(SyncTask)

Spec == Init /\ [][Next]_vars
FairSpec == Spec /\ Fairness

-----------------------------------------------------------------------------
(* Properties.                                                             *)

TypeOK ==
    /\ CredTypeOK
    /\ pc \in {"idle", "mapping", "target auth", "list", "ref", "describe",
               "create", "relay"}
    /\ m \in 0 .. Mappings + 1
    /\ refs \subseteq Repos /\ ref \subseteq Repos
    /\ failed \in BOOLEAN
    /\ existing \subseteq Paths
    /\ wanted \in [MappingIds -> SUBSET Repos]
    /\ tried \subseteq MappingIds \X Repos
    /\ synced \subseteq tried
    /\ dropped \subseteq MappingIds \X {"auth", "list", "target"}
    /\ spent \in 0 .. Lifetime

Wanted == {p \in MappingIds \X Repos : p[2] \in wanted[p[1]]}

\* A run counts as a success exactly when no mapping was given up and all that
\* the mappings stand for has been synced: no failure is forgotten on the way,
\* and none is left over from the run before.
FailedIsExact ==
    pc = "idle" => (failed <=> dropped # {} \/ synced # Wanted)

\* The trouble with one image or one mapping stays with it: whatever befell
\* the others, each mapping that the run is past was given up by a step of its
\* own, or else all its images have had their turn, which for a plain mapping
\* means the one its 'from' stands for.
EveryImageHasItsTurn ==
    \A i \in MappingIds :
        i < m => \/ \E d \in dropped : d[1] = i
                 \/ /\ \A r \in wanted[i] : <<i, r>> \in tried
                    /\ i \in Regexp \/ wanted[i] = From[i]

\* The relay is called with credentials the registry accepts: what the
\* refreshers found no need to replace, or failed to replace for an earlier
\* mapping, does not expire while a mapping is synced, unless that takes longer
\* than the margin between lifetime and refresh interval.
CredentialsLast ==
    pc = "relay" =>
        \A s \in Sides : Refresher(loc[s]) = "none" \/ life[s] > 0 \/ spent > Margin(s)

\* When the relay is called with an image, its repository in an ECR target is
\* there, whoever has created it, and whatever was removed since the last run.
TargetExists ==
    pc = "relay" /\ loc["target"].ecr => \A r \in ref : To[m][r] \in existing

\* How far a run has come with a mapping, and with a reference in the inner loop
Stage ==
    CASE pc = "mapping" -> 0
      [] pc = "target auth" -> 1
      [] pc = "list" -> 2
      [] pc \in {"ref", "describe", "create", "relay"} -> 3
      [] pc = "idle" -> 4

Turn ==
    CASE pc = "describe" -> 1
      [] pc = "create" -> 2
      [] pc = "relay" -> 3
      [] OTHER -> 4

\* A run only ever goes forward, whichever step fails: to a later mapping, to a
\* later stage of the one at hand, to fewer references that are left of it, or on
\* with the one taken up. So no failure is tried over and over, and as a mapping
\* has a limited number of references, a run cannot go on forever.
Forward ==
    \/ m' > m
    \/ m' = m /\ Stage' > Stage
    \/ m' = m /\ Stage' = Stage /\ refs' \subseteq refs /\ refs' # refs
    \/ m' = m /\ Stage' = Stage /\ refs' = refs /\ Turn' > Turn

RunsForward == [][pc # "idle" /\ <<pc, m>>' # <<pc, m>> => Forward]_vars

\* Every run that is started comes to its end.
RunEnds == pc # "idle" ~> pc = "idle"
=============================================================================
