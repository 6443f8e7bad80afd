------------------------------ MODULE RepoList ------------------------------
(***************************************************************************)
(* RepoList (internal/pkg/registry/repolist.go), which a task with regular *)
(* expressions asks for the repositories of its source, and the listers    *)
(* behind it: catalog.go, dockerhub.go, ecr.go and ecrpub.go, which work   *)
(* page by page, and index.go, which makes a single request. Which of them *)
(* it is depends on the registry and the type of lister asked for. A list  *)
(* is kept for some time and used again. Meanwhile, and between any two    *)
(* pages, repositories come and go. DockerHub wants a token, which the     *)
(* lister asks for when it has none that is good (auth/token.go).          *)
(*                                                                         *)
(* A repository is a number, its place in the order of the registry.       *)
(***************************************************************************)
EXTENDS Integers, FiniteSets, ListSources

CONSTANTS
    Repos,          \* the repositories there may be
    Images,         \* those that DockerHub has as images, and not as plugins
    PageSize,       \* length of a page, 100 in the code
    Settings,       \* what the config may say about the list
    TokenLife,      \* how long a token of DockerHub is good
    MaxChanges,     \* bound on the number of changes in the registry
    MaxFaults       \* bound on the number of calls that fail

Kinds == {"catalog", "dockerhub", "ecr", "index", "refused"}

ASSUME ReposAssumption == Repos \subseteq Nat \ {0} /\ IsFiniteSet(Repos)
ASSUME PageSizeAssumption == PageSize \in Nat \ {0}
ASSUME SettingsAssumption ==
    Settings \subseteq Setting /\ TokenLife \in Nat \ {0}
ASSUME BoundsAssumption == MaxChanges \in Nat /\ MaxFaults \in Nat

VARIABLES
    registry,   \* the kind of registry
    kind,       \* the kind of list source, or that it was refused
    maxItems,   \* l.maxItems
    duration,   \* l.cacheDuration
    decodes,    \* DockerHub's tokens can be decoded as JWS
    pc,         \* "idle", or "login" and "page" while a list is being retrieved
    cached,     \* l.repos
    left,       \* time until l.expiry
    list,       \* the repositories retrieved so far
    count,      \* the length of that list, in which some may be twice
    last,       \* the last repository retrieved
    page,       \* number of the next page
    token,      \* time until the token expires that d.creds has
    outcome,    \* what Get has returned: nothing so far, an error, a list
    got,        \* the list it has returned
    (* the registry *)
    repos,      \* the repositories it has
    changes,    \* number of changes so far
    faults,     \* number of failed calls so far
    (* history of the retrieval of the list that Get has returned *)
    lasting,    \* the repositories to be listed that the registry had all the time
    seen,       \* those it had at any time
    full,       \* the limit was reached
    torn        \* DockerHub refused a page, had a repository removed, or the
                \* token has expired

settings == <<registry, kind, maxItems, duration, decodes>>
cacheVars == <<cached, left>>
listVars == <<list, count, last, page>>
resultVars == <<outcome, got>>
historyVars == <<lasting, seen, full, torn>>
vars == <<settings, pc, cacheVars, listVars, token, resultVars, repos, changes,
          faults, historyVars>>

Init ==
    /\ \E s \in Settings : /\ registry = s.registry
                           /\ kind = ListSource(s)
                           /\ maxItems = MaxItems(s)
                           /\ duration = CacheDuration(s)
    /\ decodes \in (IF kind = "dockerhub" THEN BOOLEAN ELSE {FALSE})
    /\ pc = "idle"
    /\ token = 0
    /\ cached = {}
    /\ left = 0
    /\ list = {}
    /\ count = 0
    /\ last = 0
    /\ page = 1
    /\ outcome = "none"
    /\ got = {}
    /\ repos \in SUBSET Repos
    /\ changes = 0
    /\ faults = 0
    /\ lasting = {}
    /\ seen = {}
    /\ full = FALSE
    /\ torn = FALSE

\* The lister of DockerHub drops what is no image from the pages it gets.
Listed(found) == IF kind = "dockerhub" THEN found \cap Images ELSE found

-----------------------------------------------------------------------------
(* Get(). A definition whose name ends in _ and a word is a mutant of the  *)
(* definition that follows it: the bug the word is about, which the        *)
(* properties must be able to tell from the code.                          *)

IsCacheValid_NotEmpty == cached # {}
IsCacheValid == left > 0

GetCached ==
    /\ pc = "idle"
    /\ kind # "refused"
    /\ IsCacheValid
    /\ outcome' = "list"
    /\ got' = cached
    /\ UNCHANGED <<settings, pc, cacheVars, listVars, token, repos, changes, faults,
                   historyVars>>

\* The cache is no longer valid: the list source is asked.
Get ==
    /\ pc = "idle"
    /\ kind # "refused"
    /\ ~IsCacheValid
    /\ pc' = IF kind = "dockerhub" THEN "login" ELSE "page"
    /\ cached' = {}
    /\ list' = {}
    /\ count' = 0
    /\ last' = 0
    /\ page' = 1
    /\ outcome' = "none"
    /\ got' = {}
    /\ lasting' = Listed(repos)
    /\ seen' = Listed(repos)
    /\ full' = FALSE
    /\ torn' = FALSE
    /\ UNCHANGED <<settings, left, token, repos, changes, faults>>

\* l.cacheList()
CacheList(found) ==
    IF duration > 0 THEN cached' = found /\ left' = duration
                         ELSE UNCHANGED cacheVars

\* A call fails, and so does Get. What has been retrieved so far is dropped.
Fails_KeepsPages == pc' = "idle" /\ outcome' = "list" /\ got' = list /\ CacheList(list)
Fails ==
    /\ pc' = "idle"
    /\ outcome' = "error"
    /\ UNCHANGED <<cacheVars, got>>

-----------------------------------------------------------------------------
(* DockerHub's token                                                       *)

\* token == nil || token.IsExpired(). A token that is not decoded as JWS never
\* counts as valid, for decode() has no return in its second part.
NoToken == decodes => token = 0

Login ==
    /\ pc = "login"
    /\ pc' = "page"
    /\ token' = IF NoToken THEN TokenLife ELSE token
    /\ UNCHANGED <<settings, cacheVars, listVars, resultVars, repos, changes, faults,
                   historyVars>>

\* No answer, or one without a token: the old one stays.
LoginFails ==
    /\ pc = "login"
    /\ NoToken
    /\ faults < MaxFaults
    /\ faults' = faults + 1
    /\ Fails
    /\ UNCHANGED <<settings, listVars, token, repos, changes, historyVars>>

-----------------------------------------------------------------------------
(* Retrieve() of the list sources, one page at a time                      *)

\* The catalog, and ECR likewise, are asked for what comes after a repository.
PageAfter_Inclusive(r) ==
    {x \in repos : x >= r /\ Cardinality({y \in repos : y >= r /\ y < x}) < PageSize}
PageAfter(r) ==
    {x \in repos : x > r /\ Cardinality({y \in repos : y > r /\ y < x}) < PageSize}

\* DockerHub is asked for the page with a number.
PageNumber(k) ==
    {x \in repos : Cardinality({y \in repos : y < x})
                      \in (k - 1) * PageSize .. k * PageSize - 1}

\* The index is asked for so many. If no limit is set, that is for the library to
\* make something of: it may have a limit of its own, or refuse (PageFails).
Found == {x \in repos : Cardinality({y \in repos : y < x})
                            < (IF maxItems > 0 THEN maxItems ELSE PageSize)}

\* Without the token that ECR gives for it there is no second page of a catalog.
Page ==
    CASE kind = "dockerhub" -> PageNumber(page)
      [] kind = "index" -> Found
      [] OTHER -> IF kind = "catalog" /\ registry = "ecr" /\ last > 0 THEN {}
                  ELSE PageAfter(last)

\* There are no more pages after this one. The catalog is not done with a full
\* page, even if it is the last one.
LastPage(found) ==
    CASE kind = "catalog" -> Cardinality(found) < PageSize
      [] kind = "dockerhub" -> Cardinality(repos) <= page * PageSize
      [] kind = "ecr" -> \A x \in repos : x \in found \/ x <= last
      [] kind = "index" -> TRUE

\* The limit makes it stop when so many have been retrieved.
Full_Unlimited(n) == maxItems > 0 /\ n > maxItems + PageSize
Full(n) ==
    CASE kind = "index" -> n >= (IF maxItems > 0 THEN maxItems ELSE PageSize)
      [] kind = "ecr" -> maxItems > 0 /\ n >= maxItems
      [] OTHER -> maxItems > 0 /\ n > maxItems

\* All pages have been retrieved, and Get returns.
Deliver(found) ==
    /\ pc' = "idle"
    /\ outcome' = "list"
    /\ got' = found
    /\ CacheList(found)

GetPage ==
    /\ pc = "page"
    /\ kind = "dockerhub" => token > 0
    /\ list' = list \cup Listed(Page)
    /\ count' = count + Cardinality(Listed(Page))
    /\ last' = IF Page = {} THEN last ELSE CHOOSE x \in Page : \A y \in Page : y <= x
    /\ page' = page + 1
    /\ full' = Full(count')
    /\ IF LastPage(Page) \/ Full(count')
       THEN Deliver(list')
       ELSE UNCHANGED <<pc, cacheVars, resultVars>>
    /\ UNCHANGED <<settings, token, repos, changes, faults, lasting, seen, torn>>

PageFails ==
    /\ pc = "page"
    /\ \/ faults < MaxFaults /\ faults' = faults + 1
       \/ kind = "index" /\ maxItems <= 0 /\ UNCHANGED faults
    /\ Fails
    /\ UNCHANGED <<settings, listVars, token, repos, changes, historyVars>>

\* DockerHub answers with an error status, as it does when the token has expired.
\* The status is not looked at, and what comes with it is taken for an empty page,
\* the last one.
PageRefused ==
    /\ pc = "page"
    /\ kind = "dockerhub"
    /\ \/ token = 0 /\ UNCHANGED <<faults, torn>>
       \/ faults < MaxFaults /\ faults' = faults + 1 /\ torn' = TRUE
    /\ Deliver(list)
    /\ UNCHANGED <<settings, listVars, token, repos, changes, lasting, seen, full>>

-----------------------------------------------------------------------------

\* A repository is created or removed.
Change ==
    /\ changes < MaxChanges
    /\ changes' = changes + 1
    /\ \E r \in Repos : repos' = IF r \in repos THEN repos \ {r} ELSE repos \cup {r}
    /\ IF pc # "idle"
       THEN /\ lasting' = lasting \cap repos'
            /\ seen' = seen \cup Listed(repos')
            /\ torn' = (torn \/ (kind = "dockerhub" /\ ~(repos \subseteq repos')))
       ELSE UNCHANGED <<lasting, seen, torn>>
    /\ UNCHANGED <<settings, pc, cacheVars, listVars, token, resultVars, faults, full>>

Pass ==
    /\ left > 0 \/ token > 0
    /\ left' = IF left > 0 THEN left - 1 ELSE 0
    /\ token' = IF token > 0 THEN token - 1 ELSE 0
    /\ torn' = (torn \/ (pc = "page" /\ token = 1))
    /\ UNCHANGED <<settings, pc, cached, listVars, resultVars, repos, changes, faults,
                   lasting, seen, full>>

Next ==
    \/ GetCached \/ Get \/ Login \/ LoginFails \/ GetPage \/ PageFails
    \/ PageRefused \/ Change \/ Pass

Spec == Init /\ [][Next]_vars

\* The list is asked for whenever the task is due, the calls to the registry
\* return, which is an assumption as the code sets no time limit, and time
\* passes.
Fairness ==
    /\ WF_vars(GetCached) /\ WF_vars(Get) /\ WF_vars(Login)
    /\ WF_vars(GetPage \/ PageRefused) /\ WF_vars(Pass)

FairSpec == Spec /\ Fairness

-----------------------------------------------------------------------------
(* Properties.                                                             *)

TypeOK ==
    /\ registry \in Registries /\ kind \in Kinds
    /\ maxItems \in Int /\ duration \in Int /\ decodes \in BOOLEAN
    /\ pc \in {"idle", "login", "page"}
    /\ token \in 0 .. TokenLife
    /\ cached \subseteq Repos
    /\ left \in 0 .. (IF duration > 0 THEN duration ELSE 0)
    /\ list \subseteq Repos
    /\ count \in Nat /\ (kind # "dockerhub" => count = Cardinality(list))
    /\ last \in Repos \cup {0}
    /\ page \in Nat
    /\ outcome \in {"none", "error", "list"}
    /\ got \subseteq Repos
    /\ repos \subseteq Repos
    /\ changes \in 0 .. MaxChanges /\ faults \in 0 .. MaxFaults
    /\ lasting \subseteq Repos /\ seen \subseteq Repos
    /\ full \in BOOLEAN /\ torn \in BOOLEAN

\* A list has all the repositories that were there while it was retrieved, those
\* that are images if it comes from DockerHub, unless it reached the limit, and
\* none that was not, whatever came and went between its pages, and whatever failed
\* before. That goes for a list that is used again as well. Only a list of DockerHub
\* may have gaps: when a page was refused, the token expired after the first look at
\* it, or a removal has moved repositories to a page already retrieved.
Faithful ==
    outcome = "list" => /\ got \subseteq seen
                        /\ full \/ torn \/ lasting \subseteq got

\* A list may exceed the limit, but by no more than a page, by less if it comes
\* from ECR, and by nothing if it comes from an index.
OnePageTooMany ==
    maxItems > 0 =>
        count <= CASE kind = "index" -> maxItems
                   [] kind = "ecr" -> maxItems + PageSize - 1
                   [] OTHER -> maxItems + PageSize

\* A list is retrieved with no more requests than it takes to page through all the
\* repositories there may ever be, plus one: those that come and go between the
\* pages do not keep a lister going, whichever way it asks for the next page.
RequestsAreFew == pc = "page" => (page - 1) * PageSize <= Cardinality(Repos)

\* A repository that is there to stay will be in the lists sooner or later,
\* unless there are more than the limit or the list has been torn, and one that is
\* gone for good will not, in spite of the cache.
CacheCatchesUp ==
    \A r \in Repos :
        /\ <>[](r \in Listed(repos)) => <>[](outcome = "list" => r \in got \/ full \/ torn)
        /\ <>[](r \notin repos) => <>[](outcome = "list" => r \notin got)
=============================================================================
