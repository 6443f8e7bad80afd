------------------------------- MODULE Config -------------------------------
(***************************************************************************)
(* What LoadConfig() and New() (internal/pkg/sync) make of the content of  *)
(* a config file: the checks it has to pass, and what the sync is given to *)
(* work with. Strings are reduced to what the checks tell apart. What may  *)
(* be missing is a set with one element, or with none.                     *)
(***************************************************************************)
EXTENDS ListSources, Locations, Auth

CONSTANT MinTaskInterval    \* minimumTaskInterval

\* 'source' and 'target' of a task
ConfigLocation ==
    [registry : Registries \cup {""}, account : BOOLEAN,
     auth : AuthValue, refresh : Nat \cup {NoRefresh},
     lister : {"absent", "untyped", "invalid", "catalog", "dockerhub", "index"},
     search : BOOLEAN]

Mapping == [from : {"", "path", "regex", "bad regex"},
            to : {"", "path", "regex", "bad regex", "no replacement"},
            tags : BOOLEAN,     \* NewTagSet() accepts 'tags', see TagSet
            platform : {"", "one", "all"}]

Optional(S) == {o \in SUBSET S : \A x, y \in o : x = y}

Task == [name : BOOLEAN, interval : Int,
         source : Optional(ConfigLocation), target : Optional(ConfigLocation),
         mappings : Seq(Optional(Mapping))]

\* 'binary' and 'certs-dir' of 'skopeo': not set, the default, or another
SkopeoConfig == [binary : {"", "skopeo", "own"},
                 certsDir : {"", "/etc/skopeo/certs.d", "own"}]

YAML == [parsed : BOOLEAN,      \* it is YAML and has the right types
         relay : {"", "docker", "skopeo", "other"},
         dockerhost : BOOLEAN, skopeo : SkopeoConfig,
         maxItems : Int, cacheDuration : Int,
         tasks : Seq(Optional(Task)), watch : BOOLEAN]

-----------------------------------------------------------------------------
(* Locations                                                               *)

CredentialsOf(l) ==
    [ecr |-> l.registry = "ecr", account |-> l.account,
     gcp |-> l.registry = "gcp",
     auth |-> IF l.auth.form = "none" THEN "none"
              ELSE IF Empty(Decode(l.auth)) THEN "absent" ELSE "given",
     refresh |-> l.refresh]

ValidLocation(l) ==
    /\ l.registry # ""
    /\ l.lister \notin {"untyped", "invalid"}
    /\ l.auth.form # "garbled"
    /\ Accepted(CredentialsOf(l))

-----------------------------------------------------------------------------
(* Mappings and tasks                                                      *)

ValidMapping(m) ==
    /\ m.from \notin {"", "bad regex"}
    /\ m.to \notin {"bad regex", "no replacement"}
    /\ m.tags

IsRegexpFrom(m) == m.from = "regex"

Mappings(t) == UNION {t.mappings[i] : i \in DOMAIN t.mappings}

\* A definition whose name ends in _ and a word is a mutant of the definition
\* that follows it: the bug the word is about, which the properties must be able
\* to tell from the code.
HasRegexp_Last(t) ==
    /\ t.mappings # <<>>
    /\ \E m \in t.mappings[Len(t.mappings)] : IsRegexpFrom(m)
HasRegexp(t) == \E m \in Mappings(t) : IsRegexpFrom(m)

SettingOf(c, l) ==
    [registry |-> l.registry, type |-> IF l.lister = "absent" THEN "" ELSE l.lister,
     search |-> l.search, maxItems |-> c.maxItems,
     cacheDuration |-> c.cacheDuration]

\* The sources of the repository list of a task
RepoList(c, t) ==
    IF HasRegexp(t) THEN {ListSource(SettingOf(c, l)) : l \in t.source} ELSE {}

ValidTask(c, t) ==
    /\ t.name
    /\ t.interval = 0 \/ t.interval >= MinTaskInterval
    /\ \E l \in t.source : ValidLocation(l)
    /\ \E l \in t.target : ValidLocation(l)
    /\ \A i \in DOMAIN t.mappings : \E m \in t.mappings[i] : ValidMapping(m)
    /\ "refused" \notin RepoList(c, t)

-----------------------------------------------------------------------------
(* The config                                                              *)

Tasks(c) == UNION {c.tasks[i] : i \in DOMAIN c.tasks}

Relay(c) == IF c.relay = "" THEN "docker" ELSE c.relay

\* validate(). A task that is missing is not looked for, and is the end of the
\* process like any error.
Valid(c) ==
    /\ c.parsed
    /\ Relay(c) \in {"docker", "skopeo"}
    /\ c.dockerhost => Relay(c) = "docker"
    /\ \A i \in DOMAIN c.tasks : \E t \in c.tasks[i] : ValidTask(c, t)

\* ValidateSupport()
Platform(relay, p) == relay = "docker" => p # "all"
Supported(c) ==
    \A t \in Tasks(c) : \A m \in Mappings(t) : Platform(Relay(c), m.platform)

\* Some task will tick, without a filter
Ticking(c) == \E t \in Tasks(c) : t.interval > 0

\* The variables of package skopeo: what they are at first, and after New()
SkopeoDefaults == [binary |-> "skopeo", certsDir |-> "/etc/skopeo/certs.d"]

NewSkopeoRelay(conf, was) ==
    [binary |-> IF conf.binary # "" THEN conf.binary ELSE was.binary,
     certsDir |-> IF conf.certsDir # "" THEN conf.certsDir ELSE was.certsDir]

SkopeoAfter(c, was) ==
    IF Relay(c) = "skopeo" THEN NewSkopeoRelay(c.skopeo, was) ELSE was
=============================================================================
