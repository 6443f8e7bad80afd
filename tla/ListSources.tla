---------------------------- MODULE ListSources ----------------------------
(***************************************************************************)
(* How a task that needs a list of repositories gets its list source:      *)
(* NewRepoList (internal/pkg/registry/repolist.go), and the settings that  *)
(* validate() of the config adds (internal/pkg/sync/config.go).            *)
(***************************************************************************)
EXTENDS Integers

CONSTANTS
    DefaultMaxItems,        \* defaultListerMaxItems
    DefaultCacheDuration    \* defaultListerCacheDuration

ASSUME DefaultsAssumption ==
    DefaultMaxItems \in Nat \ {0} /\ DefaultCacheDuration \in Nat \ {0}

\* The registry: registry.hub.docker.com, one of AWS, private or public, one of
\* Google, or any other
Registries == {"hub", "ecr", "gcp", "other"}

\* What a list source depends on: the registry, the type of lister that is set
\* for it, and whether there is a search expression; and 'lister' of the config
Setting == [registry : Registries,
            type : {"catalog", "dockerhub", "index", "", "invalid"},
            search : BOOLEAN,
            maxItems : Int, cacheDuration : Int]

\* DockerHub has no catalog.
Unsupported(s) == s.registry = "hub" /\ s.type \notin {"dockerhub", "index"}

\* ECR is recognised by its name, and its catalog replaced. A definition whose
\* name ends in _ and a word is a mutant of the definition that follows it: the
\* bug the word is about, which the properties must be able to tell from the
\* code.
Catalog_AsItIs(s) == "catalog"
Catalog(s) == IF s.registry = "ecr" THEN "ecr" ELSE "catalog"

\* The kind of list source; private and public ECR are listed in the same way.
ListSource(s) ==
    CASE Unsupported(s) -> "refused"
      [] s.type = "dockerhub" -> "dockerhub"
      [] s.type = "index" -> IF s.search THEN "index" ELSE "refused"
      [] s.type \in {"catalog", ""} /\ ~Unsupported(s) -> Catalog(s)
      [] s.type = "invalid" -> "refused"

\* Zero, also for a value that is not given, stands for the default, a negative
\* value for no limit and no cache.
MaxItems(s) == IF s.maxItems # 0 THEN s.maxItems ELSE DefaultMaxItems
CacheDuration(s) ==
    IF s.cacheDuration # 0 THEN s.cacheDuration ELSE DefaultCacheDuration
=============================================================================
