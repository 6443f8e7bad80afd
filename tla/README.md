# dregsy in TLA+

*dregsy* keeps container registries in step: it reads a config with *tasks*,
each of which maps repositories of a source registry to a target registry, and
runs them once or periodically. This directory holds TLA+ modules that model
the program, the configurations with which TLC checks them on small instances,
and proofs that TLAPS checks for every value of the constants. All line numbers
are of the Go source, below `src/internal/pkg` unless said otherwise.

## The system

| component | source | state | operations | used by |
|---|---|---|---|---|
| process, config watch | `cmd/dregsy/main.go`, `sync/config.go` | loaded config, `sha1`, file watcher | load, watch, decide whether an event is a change, restart | OS, main loop |
| main loop | `sync/sync.go` | `restart`, signal channel, back-off timer `tChange`, channels `shutdown` and `ticks` | `SyncFromConfig`, its `select`, `Shutdown`, `WaitForTick` | `main`, tests |
| task tickers | `sync/task.go` | per task: `ticker`, `lastTick`, `failed`, `exit`, `done` | `startTicking`, `tooSoon`, `stopTicking` | main loop |
| sync of a task | `sync/sync.go`, `task.go`, `mapping.go` | `failed` | `syncTask`: refresh credentials, list references, create target, call the relay | main loop |
| tag sets | `tags/tagset.go`, `tags/semver.go` | the items under `tags:` | `NewTagSet`, `Expand`, `reduce` | `validate`, relays |
| Skopeo relay | `relays/skopeo` | none between calls | `Sync`: list tags, one `skopeo copy` per tag | `syncTask` |
| Docker relay | `relays/docker` | the Docker daemon's images and tags | `Sync`: pull, list, tag, push | `syncTask` |
| repository lists | `registry` | cached list and its expiry | `NewRepoList`, `Get`, and `Retrieve` of the listers page by page | `validate`, `syncTask` |
| credentials | `auth`, `sync/location.go` | user, password, token, expiry | decode, `Refresh`, `Auth` | `validate`, `syncTask`, listers, relays |
| config validation | `validate` methods in `sync` | the config, defaults filled in | check, and set up refreshers, tag sets and lists | `LoadConfig` |
| command line, logging | `cmd/dregsy/main.go` | flags | parse flags, exit codes | OS |
| utilities | `util` | none | references, JSON, digests of files, regular expressions | all |

Everything runs in one goroutine, but for one goroutine per periodic task, which
hands its task to the main loop through an unbuffered channel. What comes from
outside reaches the main loop through channels as well: signals, file events,
the request to shut down. The main loop syncs tasks itself and does not look at
its channels while it does. Relays and listers talk to registries, to the Docker
daemon and to the `skopeo` binary, without time limits.

What is hard about it:

- *interleavings*: a fire that is ready when the loop ends, a signal during a
  sync, an event while a back-off is under way, a caller of `Shutdown`;
- *time*: syncs that take longer than the interval, ticks that are dropped, fires
  that come too soon, files that are rewritten for a while;
- *failures*: each outgoing call may fail, and each place treats that in its own
  way: go on with the next image, with the next mapping, or give up the call;
- *leftovers*: the error flag of a task, the images in the Docker daemon, the
  cached list, the signal channels of earlier rounds, package variables that
  outlive a restart;
- *a moving source*: tags and repositories come and go between any two calls.

What makes each component correct is stated below, module by module, and the
hazards are listed line by line in `PROJECT.json`.

## The modules

### `Round` and `SyncLoop`: the main loop

`Round` is what the user may rely on: tasks are synced one at a time; first the
one-off tasks, each of them once; then the periodic ones; none any more once the
round is about to end; and afterwards comes the next round, or the process ends.

`SyncLoop` is one call of `SyncFromConfig` after another. `NewRound` is the loop
of `main`: fresh tasks, a fresh watch and a fresh signal channel, while the signal
handlers, which belong to the process, stay. `pc` says where the main goroutine
is, `gpc[t]` where the goroutine of task `t` is (in its send, in its select,
ended). Each case of the `select` is an action: `ReceiveFire`, `ReceiveSignal`,
`ReceiveEvent`, `ReceiveError`, `BackOffExpired`, `ReceiveShutdown`. A sync is
the two steps `BeginSync` and `FinishSync`, between which anything may happen
outside. The passes over the tasks before and after the loop go in order of the
list (`Foremost`). Channels are modelled by content: `sigs` has capacity one and
drops what does not fit, `ticks` has capacity one, the send of a fire is a
rendezvous, `notes` is the queue of the file watcher. Time is `Pass`: countdowns
for tickers and the back-off timer, and the age of `lastTick`, capped at the
interval beyond which nothing depends on it. `handler` is
`"default"` in the first round up to `signal.Notify`, and `"stale"` in later ones,
for the channel of an earlier round is still registered and nobody reads it.
`heard` are the signals sent since the round has listened.

### `SyncTiming`

`SyncLoop` with the assumption that goroutines are quick: no time passes while
one can move. Only a sync takes time. Two clocks per task, of an observer, tell
how long ago its last sync ended, and how much of that time `main` was free.

### `Locations`, `Credentials`, `SyncTask`

The body of `syncTask`, run after run. The references a mapping stands for are a
set, whichever part of it the registry lists; what expressions select and how
paths are translated are constants (`From`, `To`). Each of the outgoing calls may
fail, and the loops go on the way the code does. A target in ECR is described and
then created; others create repositories there too, so that the creation may come
too late, and they remove some between runs. `Begin` and `Finish` are `BeginSync`
and `FinishSync` of `SyncLoop`, and `failed` is the argument of the latter.

`Locations` says which refresher, if any, `validate` gives to a location, and
`Credentials` is `Refresh` of both kinds, for the two locations of a task. `expiry` is what
the refresher knows, `life` what the registry will accept; time passes for both,
during calls and between runs. The refresher for ECR counts the configured
interval, the one for GCR goes by the expiry that came with the token, which may
be near. `syncTask` refreshes both locations for each mapping, and the catalog
lister that of the source once more (`catalog.go:72`).

### `TagSet`

`NewTagSet` adds the items one by one (`AddItem`): prefixes and patterns overlap,
so that the order in which `add` tries them matters, and a list of items that
cannot be parsed is refused. Then come `Expand` and `reduce`, the latter one
iteration at a time, on a slice whose first part is in any order, as it comes from
a map. A tag is a number, its place in the string order; `Version` says which tags
are versions, and which of them are equal. An item is a record of what the tests in
`add` look at; the rest of it is a semver range, which is a set of versions, a
regular expression, which is the set of tags it matches, or a count.

The properties are stated against the list of items as it was written (`Filtered`,
`Verbatim`, `Limit`), not against the tag set it was sorted into.

### `ImageTags`, `Relay`, `SkopeoRelay`, `DockerRelay`

`ImageTags` has what both relays work on: the tags of one repository in the
source, which change at any time, tag sets, and the rules for tags with digests
(`util.go`). Expansion is one step there, as `KeepsLatest` of `TagSet` has it;
`TagSetsAssumption` excludes the sets in which a tag is selected twice. That the
step is what `TagSet` comes to is a theorem (`RelaysGetLatest`).

`Relay` is the promise of the interface `Relay` to `syncTask`: a call that
returns without an error has brought every wanted tag to the target, as the
source had it at some time during the call; and no place in the target ever gets
an image that the source never had there.

`SkopeoRelay` and `DockerRelay` are the two implementations, call after call. The
first is a loop over the tags in which a failure is noted and the loop goes on;
skopeo takes the image at the start of a copy and writes it at the end, and may
fail before or after it has written. The second is a sequence of phases (`pc` is
`"pull"`, `"list"`, `"tag"`, `"push"`), in which nearly any failure ends the call.
`local`, `held` and `staged` are what the daemon holds: it is kept from one call
to the next, and so are the tags in the target repository, all of which each push
pushes. As `README.md:93` of dregsy asks for, nobody else uses the daemon.

### `ListSources`, `RepoList`

`ListSources` is the choice of a lister in `NewRepoList`, from the registry, the
configured type and whether there is a search expression, and the defaults that
`validate` puts in. `RepoList` is `Get` with its cache, and `Retrieve` of all
listers. The ones for catalogs and for ECR, private and public, ask for what comes
after a repository, the one for DockerHub for the page with a number; DockerHub's
answers with an error status are taken for an empty last page. The one for an
index makes a single request. DockerHub wants a token, which the lister asks for
before the first page if it has none that is good (`Login`); tokens that are not
decoded as JWS never are. Its lister also drops repositories that are no images
(`Listed`), which take up room on the pages all the same. The index is passed the
limit as it is (`index.go:74`); if there is none, the library may refuse, or put in
a bound of its own, which is `PageSize` here. Repositories are created and removed
at any time. A repository is a number, its place in the order of the registry.

### `Auth`, `Config`

`Config` is everything between a config file that YAML can parse and a `Sync` that
is ready to run: `validate` of the config, its tasks, locations and mappings, with
each check, `ValidateSupport`, and what `NewSkopeoRelay` does to the variables of
its package. A string is a member of a small set, of which the checks can tell one
from another; what may be missing is a set with at most one member. `Auth` follows
user name and password, as sequences of the few characters that matter, from the
config through `Decode` and `base64Encode` (with its `Sprintf` applied to its own
result) to the `DecodeJSONAuth` of the relay, character by character, as a function
of the length of what has been read. Neither has variables.

### `ConfigWatch`

The loop of `main`, `LoadConfig` as one step, the watch, `isChanged`, and the
file, with all that may happen to it: it is written in place or replaced, removed,
touched, or its path is led to a new directory, as Kubernetes does it, the old one
being removed later. Of the main loop it has the receipt of an event and of an error
of the watch, the expiry of the back-off, SIGHUP, and the way out: `StopTasks` stands
for `stopTicking` of the tasks, of which `SyncLoop` has the details. It may hang for
ever (`"hung"`), as `StopDeadlock` shows; otherwise the watch is closed, with what it
has not delivered. Errors are queued among the events, in order, and as an error may be
that the queue is full, any number of the latest events may be missing before it
(`WatchError`). The history `lost` says that such an error has come since a change was
last reported. Contents are configs as `Config` has them, and
`Loadable` is what `Config` says of them; a config that is not ends the process,
as it does in the code. `skopeo` are the variables of that package, which stay
from one round to the next. `Prepare` stands for `Prepare` of the relay, the
pinging of the Docker daemon included, which may fail and takes its time.

### How they fit together

`BeginSync` and `FinishSync` of `SyncLoop` are the ends of a run of `SyncTask`.
`MappingRefs` of `SyncTask` is `Get` of `RepoList`, in one step: any part of what
the expression selects may come, and it may fail. `RelaySync` is a call of a
relay, of which `Relay` says what to expect. `Expand` of `ImageTags`, the expansion
in one step, has the result of the many steps of `TagSet` (theorem `RelaysGetLatest`). `ListsAreThere` of `ConfigWatch` shows that
`MappingRefs` finds the list it uses, and `Refresher` of `Locations` is used by
`Credentials` and `Config` alike. `Round` and `Relay` are the abstract
specifications, which `SyncLoop` and both relays implement.

## What TLC checks

Definitions named `X_Word` are mutants of the definition `X`: plausible bugs that
the properties must be able to tell from the code. `PROJECT.json` says which one
each property is tried on. They are not part of any specification.

| run | instance and bounds | properties |
|---|---|---|
| `SyncLoopSafety` | three tasks: periodic, one-off, filtered out; both kinds of signals, three kinds of file notifications, two of them per round; a caller of `Shutdown`; any number of rounds | `TypeOK`, `NoLeakOnReturn`, `ErrorReported`, `EndHasCause`, `ShutdownReleases`, `RestartDebounced`, `KeepsPromise` (refines `Round`), `NothingLost` |
| `SyncLoopLiveness` | two periodic tasks, SIGTERM, two notifications per round, any number of rounds | `KeepsSyncing`, `SignalEndsLoop`, `StopBlockedOnlyByFire`, `ChangeRestarts` |
| `SyncTiming` | two periodic tasks with intervals 3 and 4, one notification per round | `GapBound`, `NoBurst` |
| `SyncTask` | three mappings, the first and last regular expressions that overlap, two repositories; sources in ECR, GCR or without a refresher, targets in ECR or not; credentials live for 3, intervals of 2 and the minimum of 1; every call may fail | `TypeOK`, `FailedIsExact`, `EveryImageHasItsTurn`, `CredentialsLast`, `TargetExists`, `RunsForward`, `RunEnds` |
| `TagSet` | all 4369 lists of up to three out of 16 items, and 300 longer ones with one item of each kind or with three names and a count; five tags, two of them no versions, two the same version, among them tags selected twice; all listings, all orders of a map | `PartitionInv`, `KeepsLatest`, `NeverTooMany` |
| `SkopeoRelay` | two names, two images, four tag sets; two changes in the source, one failure | `KeepsPromise` (refines `Relay`), `OnlyWanted`, `CatchesUp` |
| `DockerRelay` | the same with three tag sets | `KeepsPromise` (refines `Relay`), `CatchesUp` |
| `RepoList` | five repositories, pages of two; catalog, ECR, DockerHub and index, each with the default limit of two, a limit of one and none; settings that are refused; one repository that DockerHub has as a plugin; two changes, one failed or refused call; tokens that live for 3, the cache for 2 | `TypeOK`, `Faithful`, `OnePageTooMany`, `RequestsAreFew`, `CacheCatchesUp` |
| `ConfigWatch` | a file with two valid contents and a broken one, which three edits may change at any time, with one error of the watch and one SIGHUP; and 5199 other configs, each left alone, in which the settings of one part take all values that make a difference | `TypeOK`, `RestartHasReason`, `ListsAreThere`, `CredentialsReach`, `ChangeNoticed`, `ConfigCatchesUp` |
| `StopDeadlock` | one periodic task and a SIGTERM | `StopCompletes` is violated |
| `DockerNoMatch` | a filter for one of two names | `OnlyWanted` is violated |
| `StaleSkopeo` | the three contents above, one edit, no error, one SIGHUP | `FullRestart` is violated |

Each liveness property says that something happens in the end. The prover cannot show
that, but a program that does not live up to it has, as a rule, first lost what was
to make it happen, and this is a matter of safety. So next to most of them there is
one that says that it is not lost:

| nothing is lost | what it is for |
|---|---|
| `NothingLost`, `SignalKept`: the channel of capacity one holds a signal from the first that reached the round until the loop is left | `SignalEndsLoop` |
| `NothingLost`, `ChangePending`: a change that was seen has a timer that runs out when the back-off time since the last one is over | `ChangeRestarts` |
| `NothingLost`, `FiresAhead`: at the select of the main loop, each periodic task has a goroutine that was not told to exit and a ticker that ticks within an interval | `KeepsSyncing` |
| `NothingLost`, `AwaitsExit`: a goroutine that `stopTicking` waits for is there and has been told, and all it can do at its own select is exit | `StopBlockedOnlyByFire` |
| `RunsForward`: a run goes to a later mapping, a later stage of it, fewer references, or on with the one taken up | `RunEnds` |
| `RequestsAreFew`: a list is retrieved with no more requests than there may be full pages, plus one | `CacheCatchesUp` |
| `ChangeNoticed`: while the process works with something else than what is in the file, a restart is due or an event that leads to it waits or is still to come, or else one of two ways to lose it has been taken (below) | `ConfigCatchesUp` |

`StuckForGood` is the other side of `AwaitsExit`, and of the finding below: if the
goroutine is in its send, no step of any part of the system changes that. It is a
theorem only, and so are the type invariants of `SyncTiming`, `TagSet` and the two
relays (`TypeCorrect`, `TimingTypeCorrect`), which the runs of these modules leave out.

*Bounds.* Two tasks are enough for one to be synced while the other fires, is
skipped, or waits to be stopped; a third is filtered out. Intervals are so small
that the half of an interval, the interval and the back-off end in different
orders, and in `SyncTiming` one of them is odd, since `tooSoon` halves. Two
notifications are a change and what comes after it. The number of rounds is not
bounded: a new one brings all variables back to where they were, but for the
handler. Lists of three items have each kind of item in front of, between and
after the others, twice or not at all. In the relays two names allow
for a limit, two images for a tag that moves, and two changes for one that moves
and moves back, or for one that appears while another goes; one failure may
strike at any call, and the images that it leaves behind in the daemon meet the
calls that follow, of which there are any number. In `SyncTask` a mapping may be given up and the next ones must do without the
credentials it failed to renew. With five repositories and pages
of two there are three pages, one of them partial. Three edits of the config are
enough for it to be replaced, mounted anew and broken; one error of the watch may come
before, between or after their events, and take any of them with it. Validation looks at each
part of a config on its own, with the exceptions of the relay, which matters for
the platforms of the mappings, and of the mappings and the source of a task, which
decide on its list: these are combined. User names and passwords have up to two
characters, so that a percent sign meets each other one.

*Deadlock* is not checked where the system may stop: a round returns, a process
exits, an expansion is done. `SyncTask`, the relays and `RepoList` go on for ever,
and there it is checked.

*Fairness.* The Go scheduler runs what can run, and time passes: weak fairness of
the steps of `main` and of the goroutines, and of `Pass`. A `select` with several
ready cases takes one at random, so a case that is ready again and again is taken
in the end: strong fairness of the cases of the main loop. That calls to relays,
registries, the daemon and `skopeo` return is an assumption: the code sets no time
limit, and a call that hangs stops everything. Signals, notifications, edits,
changes in registries and calls of `Shutdown` need not happen. In `ConfigWatch`
whoever sets a link to a new directory is assumed to remove the old one, as the
code expects of Kubernetes, and the back-off expires if a change is pending over
and over (strong fairness), since events may come in between.

*The conditions in the properties.* Some properties hold under a condition, which
is where the code falls short of what one would expect:

- `StopBlockedOnlyByFire` says what can keep a round from ending. `StopCompletes`,
  that nothing can, is violated: if a task fires while another is synced, and the
  loop is left for a signal, a change or a shutdown, `stopTicking` closes `exit`
  and waits for `done`, but the goroutine of the task is blocked in its send. The
  signals are caught by then, so SIGTERM no longer ends the process (`StuckForGood`,
  which is proved). dregsy's
  README (line 98) says that a restart waits for the current task and happens.
- `OnlyWanted` holds for Skopeo. For Docker it is violated: with no tag left after
  expansion the relay pulls and pushes all tags (`dockerrelay.go:138`), while
  dregsy's README (line 127) has a tag synced if it satisfies one of the items. The
  same goes for a tag set of `keep` filters only, which counts as empty (line 121),
  and for tags that a failed call has staged and a later one pushes (line 207).
- `DockerRelay!KeepsPromise` counts a call in which a listing of local images
  failed as one that may have failed, though it returns no error: the error is
  logged and dropped (lines 171, 180).
- `KeepsLatest` is about lists that bring no tag into the slice twice (`NoneTwice`).
  A verbatim tag that a filter selects as well, or that is listed twice, is in it
  twice (`tagset.go:221`) and is counted twice by the limit, so that fewer tags than
  the limit may be left though there are more, while dregsy's README (line 145)
  speaks of the latest *n* tags. `NeverTooMany` needs no condition: also with such
  tags no limit is exceeded, that of the semvers or, if there are none, of all tags, and
  nothing is dropped that is newer than what is left.
- `ChangeRestarts` and `RestartDebounced` let an error of the watch call a restart
  off: it stops the back-off timer (`sync.go:193`), so that a pending restart is
  forgotten.
- `SignalEndsLoop` is about the signals sent once `signal.Notify` was called. After
  a restart, signals sent before that, during the one-off tasks say, are lost.
  `EndHasCause` shows that they do not end a later round either.
- `ChangeNoticed` and `ConfigCatchesUp` have the same exception for errors of the watch
  (`lost`): the restart for the changes reported before the error, or held in a queue
  that overflows, is forgotten (`sync.go:193`), and the process stays with the old
  content until another change is reported. They also exclude a change between
  the loading of the config and the watch, in which the relay is prepared (`missed`).
  `ConfigCatchesUp` further excludes a process that hangs while it stops its tasks
  (`task.go:144`), as `StopDeadlock` shows.
- `Faithful` and `CacheCatchesUp` allow gaps in a list of DockerHub whose retrieval
  was `torn`: by a refused page (`dockerhub.go:102`), by a token that expired after
  the lister had looked at it, or by a removal, since its pages are numbered.
- `OnePageTooMany` is the limit the listers keep; dregsy's README (line 34) calls
  it the maximum.
- `FullRestart`, that a restart works with the `skopeo` settings of the new config,
  is violated: they are package variables, which `NewSkopeoRelay` sets if the config
  names them and otherwise leaves as the config before has set them.
- `CredentialsReach` is about credentials in JSON form without `%`, quotes and
  backslashes. `base64Encode` uses the text with the credentials as the format of a
  second `Sprintf` (`auther.go:48`), which garbles `%`, and puts them into JSON
  without escaping. The form `user:password` is decoded, but `BasicAuth` encodes it
  in the same form, which `DecodeJSONAuth` of the relays cannot parse: the relay goes
  without credentials.
- `Config` lets a missing task (`- ` in YAML, a nil pointer) end the process: the code
  panics.
- `CredentialsLast` holds for as long after the start of a mapping as the interval
  leaves of the lifetime, which is two hours of twelve with the `10h` of dregsy's
  README (line 222), and nothing for GCR, whose refresher keeps credentials until
  they have expired. A mapping that takes longer may fail for that reason, since
  credentials are not refreshed between its images.
- `TargetExists` assumes that nobody removes target repositories during a run.
- `CatchesUp` for Docker assumes that all verbatim tags are in the source, for one
  that is missing ends the pull (`dockerrelay.go:148`); for Skopeo it does not.

## What TLAPS proves

All theorems are about any values of the constants that satisfy the named
assumptions of the modules, which TLC evaluates in each run. None of the
invariants is inductive as it stands; what follows says what it takes.

`SyncLoopProofs`, for any number of tasks, any intervals, task filter, back-off
time, signals and notifications, and any number of rounds:

| theorem | statement | inductive invariant |
|---|---|---|
| `TypeCorrect` | `Spec => []TypeOK` | tickers run for periodic tasks only and have time left; a task is being synced or awaited where `cur` says so |
| `NoLeak` | `Spec => []NoLeakOnReturn` | `LeakInv`: the tasks the last pass has left behind, which are neither in `todo` nor waited for, have no ticker and no goroutine; a goroutine exists only where a ticker was started |
| `ReportsErrors` | `Spec => []ErrorReported` | `ErrorInv`: `failed` agrees with the history `lastBad` but for the task that is being synced, and `err` with the tasks the last pass has visited |
| `Debounced` | `Spec => RestartDebounced` | `BackOffInv`: the timer is off, or it and the time since the last change add up to the back-off time |
| `EndsForACause` | `Spec => []EndHasCause` | `EndInv`: what waits in the signal channel was sent while this round has listened; this is where it matters that a new round has a new channel |
| `ReleasesCaller` | `Spec => []ShutdownReleases` | the same |
| `Refinement` | `Spec => KeepsPromise`: every step is a step of `Round` or a stutter | `PromiseInv`: `todo` holds one-off tasks only before the main loop, and signals no longer kill the process once it has been entered |

What the liveness properties of the loop rest on is put together in `LosesNothing`,
`Spec => []NothingLost`, out of the first four of these; the last one is about the wait
that does not end:

| theorem | statement | inductive invariant |
|---|---|---|
| `KeepsSignal` | `Spec => []SignalKept` | `PendingInv`, with `BackOffInv` |
| `KeepsTimer` | `Spec => []ChangePending` | the same: `BackOffInv` says when a timer that runs ends, this that there is one |
| `KeepsFiring` | `Spec => []FiresAhead` | `ServeInv`: while `main` serves its tasks, all of their goroutines are there and none has been told to stop; `DueInv`: a ticker that runs has a goroutine to tick for and at most an interval to go |
| `StopIsHeard` | `Spec => []AwaitsExit` | `DueInv`: who has been told to exit has no ticker and no tick |
| `HangsForGood` | `Spec => StuckForGood` | `PromiseInv`: signals no longer kill the process, and the one who would receive the fire is the one who waits |

and about `SyncTiming`, under its assumption that goroutines are quick:

| theorem | statement | inductive invariant |
|---|---|---|
| `TimingTypeCorrect` | `TimingSpec => []TimingTypeOK` | `ClockInv`: the last sync of a task never looks longer ago than it is, and a task has not waited for longer than its age says |
| `SyncsKeepApart` | `TimingSpec => NoBurst` | the same: a fire that `tooSoon` lets pass finds the age of the task, and with it the time since its last sync, at half the interval or more |
| `GapIsBounded` | `TimingSpec => []GapBound` | `WaitInv`: a task is being synced, or its fire is under way, or what it has waited and what is left until the next tick add up to one and a half intervals at most. It needs `ServeInv` |

`SyncTaskProofs`, for any mappings, repositories, locations, refresh intervals and
lifetimes of credentials:

| theorem | statement | inductive invariant |
|---|---|---|
| `TypeCorrect` | `Spec => []TypeOK` | itself, with the bounds of `m` |
| `CredentialsAreGood` | `Spec => []CredentialsLast` | `CredInv`: while the refresher counts on credentials, the registry accepts them for at least the margin longer; `Refreshed`: from the refresh of a side on, the life of its credentials and the time spent on the mapping add up to more than the margin |
| `TargetsExist` | `Spec => []TargetExists` | the target is there from its description or creation on |
| `ImagesHaveTheirTurn` | `Spec => []EveryImageHasItsTurn` | `RunInv`: an image is tried once only in a mapping, and what is left of the mapping is in `refs` and `ref` |
| `FailureIsExact` | `Spec => []FailedIsExact` | `RunInv`: the flag is set exactly when a mapping has been dropped or a tried image not synced |
| `RunsAdvance` | `Spec => RunsForward` | that of `TypeCorrect`; the rest is about single steps, one `CASE` for each (`StepForward`) |

As the references of a mapping are a finite set, `RunsForward` is a decreasing measure
on a well-founded order, whatever fails: a run whose calls return can take a limited
number of steps. That it takes them is fairness, and `RunEnds` is left to TLC.

`SkopeoRelayProofs` and `DockerRelayProofs`, which rest on the lemmas about tags and
tag sets in `ImageTagsProofs`, for any names, images and tag sets in which no tag is
selected twice, any number of changes in the source and of failures:

| theorem | statement | inductive invariant |
|---|---|---|
| `TypeCorrect` (both) | `Spec => []TypeOK` | part of what follows |
| `WritesOnlyWanted` (Skopeo) | `Spec => OnlyWanted` | the tag under way is a wanted one |
| `Refinement` (Skopeo) | `Spec => KeepsPromise`: every step is a step of `Relay` or a stutter | the image under way is one the source has had for its tag during the call; wanted tags have places of their own; as long as nothing has failed each of them is copied or still to come |
| `Refinement` (Docker) | `Spec => KeepsPromise` | a wanted tag is followed through the daemon, phase by phase: it is still to be pulled or there as the source had it during the call, then still to be listed or found, still to be tagged or staged, still to be pushed or copied, unless a listing has failed. What earlier calls have left there has come from the source at some time |

That wanted tags have places of their own (`ExpandSeparates`) is what keeps one
copy from undoing another; it is where `TagSetsAssumption` and `PlacesAssumption`
are needed.

`RepoListProofs`, for any repositories, images among them, page size, limits, cache
durations and lifetimes of tokens, and any number of changes and failures:

| theorem | statement | inductive invariant |
|---|---|---|
| `TypeCorrect` | `Spec => []TypeOK`, with `count` the size of the list except at DockerHub | pages do not overlap with the list |
| `ListsAreFaithful` | `Spec => []Faithful` | `Covered`: while a list is being retrieved it has everything that has lasted and comes before the next page; for DockerHub by rank, which only grows for what lasts unless a repository is removed |
| `LimitHolds` | `Spec => []OnePageTooMany` | `Fits`: between pages the limit is not exceeded |
| `RequestsAreBounded` | `Spec => []RequestsAreFew` | `RequestsInv`: each page but the last is full (`PagesAreFull`), and pages that ask for what comes after a repository are disjoint, so that the list has as many members as they have room for; those of DockerHub end by their numbers |

The pages are sets of numbers selected by how many others there are below them. What
the proof needs to know of them (`PageAfterIsNext`, `PageNumberIsNext`, `FoundIsAll`)
follows from facts about ranks in finite sets. These would be proved by induction;
as the library's induction theorems cannot be instantiated, the least and the greatest
member of a finite set come from the minimal one among its initial segments, which
exists since strict inclusion is well-founded on the subsets of a finite set.

`TagSetProofs`, for any tags and versions, lists of items of any length and in any
order, any listing, and any order of Go's map:

| theorem | statement | inductive invariant |
|---|---|---|
| `TypeCorrect` | `Spec => []TypeOK` | `PlaceInv`: what `reduce` has looked at is either left of the pivot or in `vers`, and its index stays within the slice |
| `SliceIsParted` | `Spec => []PartitionInv` | `ReduceInv`: the swaps lose and double nothing, and what they move is in its part already |
| `LatestAreKept` | `Spec => []KeepsLatest` | `AddingInv`: after each item the tag set says what the items so far say, so that filters and limits do not depend on where they stand; from there on the slice has the tags the whole list asks for, each of them once if `NoneTwice` holds |
| `LimitIsKept` | `Spec => []NeverTooMany` | the same, without `NoneTwice`: the cuts take the first of the versions in descending order, or the last of the strings in ascending order, whether or not some are equal (`FirstAreLatest`, `LastAreLatest`) |
| `RelaysGetLatest` | `Spec => []ExpandsForRelays`: the result is `Expand` of `ImageTags`, of the tag set as that module has it | `LatestAreKept`; where no two versions are equal there is one set of the latest `n`, and it has the members with fewer than `n` later ones |

`RelaysGetLatest` carries the results about the relays over to the tags that come out
of the expansion. Its conditions are those of `ImageTags`: the order of the strings
is that of the versions (`OneOrder`), no tag is selected twice, and a limit goes with
filters only.

What sorting returns is not defined by recursion: an element is where the number of
smaller ones puts it, and equal ones are next to each other (`Ascending`). That each
place is filled (`PlaceIsFilled`) and that the result has the same elements in order
(`AscendingProperties`) is proved by counting, for slices of any length.

`ConfigWatchProofs`, for any contents of the config file, any edits and any number of
SIGHUPs and errors of the watch:

| theorem | statement | inductive invariant |
|---|---|---|
| `TypeCorrect` | `Spec => []TypeOK` | `Shape`: what is being watched at each stage, and when events may be waiting |
| `RestartsHaveReason` | `Spec => []RestartHasReason` | `Quiet`: as long as the file was left alone it is what the digest was computed of, and the events that wait are harmless |
| `ChangesAreNoticed` | `Spec => []ChangeNoticed` | `NoticeInv`: until the watch begins, the file is as it was loaded or the change is missed; from then on, while the file is in the directory that is watched, it is as loaded, or missed, or lost, or noticed, that is, the timer runs or an event waits that will start it, with no error behind it; a directory that was left by a relink is still to be removed, which will be reported, or its removal was lost or noticed. `ReportIsNoticed` and `ReceivedIsNoticed` follow this through the queue |
| `ListsAreThereAlways` | `Spec => []ListsAreThere` | `Checked`: the config that the process works with has passed `Valid`; that this is enough is `ValidConfigHasLists`, which has no variables |
| `CredentialsReachRelay` | `Spec => []CredentialsReach` | `TypeOK`; for each credential it is a fact about `Printed` and `Decode` (`PassedIsGiven`) |

What `Printed` does to a text of any length, it does character by character. That a
text without percent signs passes through unchanged (`PrintedPlain`) calls for an
induction over its length. It is done by the least counterexample, which a non-empty
set of numbers has (`HasLeast`): the induction theorems of the library take an
operator as a parameter, which the installed provers cannot instantiate.

Only model-checked is liveness itself (`KeepsSyncing`, `SignalEndsLoop`, `ChangeRestarts`,
`StopBlockedOnlyByFire`, `RunEnds`, `CatchesUp`, `CacheCatchesUp`, `ConfigCatchesUp`),
which depends on fairness and is beyond the prover; what of it can be said as safety
is proved, as listed under *What TLC checks*. The safety properties of all
passing runs are theorems.

## Not modelled

- parsing of YAML, of regular expressions and of semver ranges: libraries. Whether
  they succeed is part of a config or an item in the models;
- which repositories an expression selects, and how `mapPath` rewrites a path:
  constants of `SyncTask`;
- the preparation of the Docker client, which is pinged up to 30 times, is one step
  that may fail (`Prepare` of `ConfigWatch`); its creation and closing, and the
  platforms of images, are left out;
- `Ping` of the listers, which nothing calls;
- requests to AWS and Google, HTTP details, the bounds the library has on the limit
  for an index, the arguments of `skopeo`, TLS settings, logging, flags and exit codes: I/O and
  formatting that no property is about;
- a call that hangs: no call to a relay, a registry or the daemon has a time limit,
  so nothing would ever happen after it.

Met while reading, and left without a run: a regular expression that consists of
alternatives, `a|b`, is anchored at the start of the first and the end of the last
only (`util/regex.go:26-36`), though dregsy's README (line 307) has it match the whole
name; a public ECR as a source has no account, with which `NewRepoList` creates its
lister; and `main` returns the error of the last round only.

## Plan

1. Done: `Round`, `SyncLoop` with its rounds, `SyncTiming`, `Locations`, `Credentials`,
   `SyncTask`, `TagSet` with its items, the relays, `ListSources`, `RepoList`, `Auth`,
   `Config`, `ConfigWatch`; the proofs of the safety properties of all of them, the
   refinements of `Round` and `Relay`, and that of the expansion in `ImageTags`; and
   the safety part of the liveness properties.
2. Proofs that would say more: that `Get` of `RepoList` returns what `MappingRefs` of
   `SyncTask` takes from it, as `RelaysGetLatest` does for tags; for `CatchesUp` of the
   relays, what it takes of the source and the daemon for a call to succeed.
3. A run for regular expressions with alternatives; the pings of the Docker daemon.
