--------------------------- MODULE MCConfigWatch ---------------------------
(* Instances of ConfigWatch for TLC: a few contents for a file that changes, *)
(* and for one that stays as it is contents in which each part of the config *)
(* takes all the values that make a difference, with the others as they are. *)
EXTENDS ConfigWatch

NoAuth == [form |-> "absent", user |-> <<>>, pass |-> <<>>]
JSON(user, pass) == [form |-> "json", user |-> user, pass |-> pass]
ALocation == [registry |-> "other", account |-> FALSE, auth |-> NoAuth,
              refresh |-> NoRefresh, lister |-> "absent", search |-> FALSE]
AMapping == [from |-> "path", to |-> "path", tags |-> TRUE, platform |-> ""]
ATask == [name |-> TRUE, interval |-> 2, source |-> {ALocation},
          target |-> {ALocation}, mappings |-> <<{AMapping}>>]
AConfig == [parsed |-> TRUE, relay |-> "skopeo", dockerhost |-> FALSE,
            skopeo |-> [binary |-> "", certsDir |-> ""],
            maxItems |-> 0, cacheDuration |-> 0,
            tasks |-> <<{ATask}>>, watch |-> TRUE]

Maybe(S) == {{}} \cup {{x} : x \in S}
With(t) == [AConfig EXCEPT !.tasks = <<{t}>>]

\* A valid config, one with a setting of skopeo, and half a file
SomeRewrites ==
    {AConfig, [AConfig EXCEPT !.skopeo.binary = "own"],
     [AConfig EXCEPT !.parsed = FALSE]}

Tops ==
    {[AConfig EXCEPT !.relay = r, !.dockerhost = d, !.watch = w,
                     !.tasks[1] = {[ATask EXCEPT !.mappings = <<{m}>>]}] :
        r \in {"", "docker", "skopeo", "other"}, d \in BOOLEAN, w \in BOOLEAN,
        m \in {[AMapping EXCEPT !.platform = p] : p \in {"", "one", "all"}}}

SomeTasks ==
    {With([ATask EXCEPT !.name = n, !.interval = i, !.source = s, !.target = t]) :
        n \in BOOLEAN, i \in -1 .. 3,
        s \in Maybe({ALocation}), t \in Maybe({ALocation})}

TaskLists == {[AConfig EXCEPT !.tasks = l] :
    l \in {<<>>, <<{}>>, <<{ATask}, {}>>,
           <<{ATask}, {[ATask EXCEPT !.interval = 0]}>>,
           <<{[ATask EXCEPT !.interval = 0]}>>}}

SomeMappings ==
    Maybe({[AMapping EXCEPT !.from = f, !.to = t, !.tags = g] :
        f \in {"", "path", "regex", "bad regex"},
        t \in {"", "path", "regex", "bad regex", "no replacement"},
        g \in BOOLEAN})
MappingLists ==
    {With([ATask EXCEPT !.mappings = <<m, {[AMapping EXCEPT !.from = f]}>>]) :
        m \in SomeMappings, f \in {"path", "regex"}}

Auths == {NoAuth, [NoAuth EXCEPT !.form = "none"],
          [NoAuth EXCEPT !.form = "garbled"], JSON(<<>>, <<>>),
          JSON(<<"x">>, <<"x">>)}
SomeLocations ==
    {[registry |-> r, account |-> a, auth |-> h, refresh |-> n, lister |-> l,
      search |-> s] :
        r \in Registries \cup {""}, a \in BOOLEAN, h \in Auths,
        n \in {NoRefresh, 0, 2},
        l \in {"absent", "untyped", "invalid", "catalog", "dockerhub", "index"},
        s \in BOOLEAN}
Sources ==
    {With([ATask EXCEPT !.source = {l},
                        !.mappings = <<{[AMapping EXCEPT !.from = f]}>>]) :
        l \in SomeLocations, f \in {"path", "regex"}}

\* A user name in simple credentials ends at the first colon.
Strings == UNION {[1 .. n -> Characters] : n \in 0 .. 2}
GivenAuths ==
    {a \in [form : {"text", "json"}, user : Strings, pass : Strings] :
        a.form = "text" => \A i \in DOMAIN a.user : a.user[i] # ":"}
Targets ==
    {With([ATask EXCEPT !.target =
               {[ALocation EXCEPT !.registry = r, !.auth = a]}]) :
        r \in {"other", "gcp"}, a \in GivenAuths}

SomeContents ==
    UNION {SomeRewrites, Tops, SomeTasks, TaskLists, MappingLists, Sources,
           Targets}
=============================================================================
