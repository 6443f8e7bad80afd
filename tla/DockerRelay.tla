---------------------------- MODULE DockerRelay -----------------------------
(***************************************************************************)
(* DockerRelay.Sync (internal/pkg/relays/docker/dockerrelay.go), call      *)
(* after call, and the local Docker daemon it works through: images are    *)
(* pulled, listed, tagged for the target and pushed. What the daemon holds *)
(* stays there from one call to the next, and through restarts of dregsy.  *)
(*                                                                         *)
(* Nobody else uses the daemon, as README.md asks for. Of its repositories *)
(* only the two that a mapping is about matter.                            *)
(***************************************************************************)
EXTENDS ImageTags

CONSTANT MaxFaults      \* bound on the number of failures not due to a tag

ASSUME FaultsAssumption == MaxFaults \in Nat

VARIABLES
    target,     \* target[p]: the image at a place of the target, or None
    pc,         \* where the call is, or how the last one ended
    ts,         \* its tag set
    tags,       \* the expanded tags; empty: all tags
    todo,       \* the tags the current loop has yet to visit
    srcImages,  \* the images to tag: pairs of an image and a tag
    unpushed,   \* the places the daemon has yet to push
    (* the daemon *)
    local,      \* local[n]: the image tagged n in the source repository, or None
    held,       \* the images it has in the source repository, by digest
    staged,     \* staged[p]: the image tagged in the target repository, or None
    faults,     \* number of failures so far
    (* history *)
    wanted,     \* the tags that are to be synced
    copied,     \* those of them that were pushed
    unlisted    \* a listing of local images has failed in this call

callVars == <<ts, wanted, unlisted>>
loopVars == <<tags, todo, srcImages, unpushed>>
daemonVars == <<local, held, staged>>
targetVars == <<target, copied>>
vars == <<sourceVars, pc, callVars, loopVars, daemonVars, targetVars, faults>>

Init ==
    /\ SourceInit
    /\ target = [p \in Places |-> None]
    /\ pc = "ok"
    /\ ts \in TagSets
    /\ tags = {}
    /\ todo = {}
    /\ srcImages = {}
    /\ unpushed = {}
    /\ local = [n \in Names |-> None]
    /\ held = {}
    /\ staged = [p \in Places |-> None]
    /\ faults = 0
    /\ wanted = {}
    /\ copied = {}
    /\ unlisted = FALSE

Fault == faults < MaxFaults /\ faults' = faults + 1

-----------------------------------------------------------------------------
(* A definition whose name ends in _ and a word is a mutant of the         *)
(* definition that follows it: the bug the word is about, which the        *)
(* properties must be able to tell from the code.                          *)

Sync ==
    /\ pc \in {"ok", "error"}
    /\ pc' = "expand"
    /\ ts' \in TagSets
    /\ tags' = {}
    /\ todo' = {}
    /\ srcImages' = {}
    /\ unpushed' = {}
    /\ wanted' = {}
    /\ copied' = {}
    /\ unlisted' = FALSE
    /\ seen' = Now
    /\ UNCHANGED <<source, changes, ever, target, daemonVars, faults>>

\* opt.Tags.Expand(), for a tag set that is not empty. When nothing is left,
\* the call goes on as with no tags given at all.
ExpandTags ==
    /\ pc = "expand"
    /\ ~IsEmpty(ts)
    /\ tags' = Expand(ts, Listed)
    /\ wanted' = tags'
    /\ todo' = tags'
    /\ pc' = IF tags' = {} THEN "pull all" ELSE "pull"
    /\ UNCHANGED <<sourceVars, ts, unlisted, srcImages, unpushed, daemonVars,
                   targetVars, faults>>

\* An error on the way that ends the call at once
Fails ==
    /\ \/ pc = "expand" /\ NeedsExpansion(ts)
       \/ pc \in {"pull", "pull all", "tag", "push"}
    /\ Fault
    /\ pc' = "error"
    /\ UNCHANGED <<sourceVars, callVars, loopVars, daemonVars, targetVars>>

\* r.pull() of all tags starts with a listing by the daemon. It may fail if
\* there is no tag.
PullAll ==
    /\ pc = "pull all" \/ (pc = "expand" /\ IsEmpty(ts))
    /\ todo' = {Plain(n) : n \in Listed}
    /\ wanted' = IF IsEmpty(ts) THEN Expand(ts, Listed) ELSE wanted
    /\ pc' \in {"pull"} \cup (IF Listed = {} THEN {"error"} ELSE {})
    /\ UNCHANGED <<sourceVars, ts, unlisted, tags, srcImages, unpushed,
                   daemonVars, targetVars, faults>>

\* r.pull() of one tag, by digest if it has one; or the same as part of a pull
\* of all tags. An image that is missing in the source ends the call.
SourceImage_ByName(tag) ==
    IF tag.name # None THEN source[tag.name] ELSE tag.digest
SourceImage(tag) == Current(tag)

Pull(tag) ==
    /\ pc = "pull"
    /\ tag \in todo
    /\ LET image == SourceImage(tag) IN
       IF image # None
       THEN /\ local' = IF tag.digest = None
                        THEN [local EXCEPT ![tag.name] = image] ELSE local
            /\ held' = held \cup {image}
            /\ todo' = todo \ {tag}
            /\ UNCHANGED pc
       ELSE /\ pc' = "error"
            /\ UNCHANGED <<local, held, todo>>
    /\ UNCHANGED <<sourceVars, callVars, tags, srcImages, unpushed, staged,
                   targetVars, faults>>

PullsDone ==
    /\ pc = "pull"
    /\ todo = {}
    /\ pc' = "list"
    /\ todo' = tags
    /\ UNCHANGED <<sourceVars, callVars, tags, srcImages, unpushed, daemonVars,
                   targetVars, faults>>

\* r.list(): the local images that match a tag, each with the full tag
Matching(tag) ==
    IF tag.digest # None
    THEN {<<i, tag>> : i \in held \cap {tag.digest}}
    ELSE {<<i, tag>> : i \in {local[tag.name]} \ {None}}

\* With no tags given it is all those of the repository, old ones included.
AllMatching == UNION {Matching(Plain(n)) : n \in Names}

\* The outcome of a listing that has found these images and leaves the rest
\* of the tags to list. A failure is no more than logged.
Lists_Replace(found, rest) ==
    /\ srcImages' = found
    /\ todo' = rest
    /\ pc' = IF rest = {} THEN "tag" ELSE "list"
    /\ UNCHANGED <<unlisted, faults>>
Lists(found, rest) ==
    /\ \/ srcImages' = srcImages \cup found /\ UNCHANGED <<unlisted, faults>>
       \/ /\ Fault
          /\ \E part \in SUBSET found : srcImages' = srcImages \cup part
          /\ unlisted' = TRUE
    /\ todo' = rest
    /\ pc' = IF rest = {} THEN "tag" ELSE "list"

List ==
    /\ pc = "list"
    /\ \/ tags = {} /\ Lists(AllMatching, {})
       \/ \E tag \in todo : Lists(Matching(tag), todo \ {tag})
    /\ UNCHANGED <<sourceVars, ts, wanted, tags, unpushed, daemonVars, targetVars>>

\* r.tag(), one image and tag at a time. A tag without a name gets one that is
\* made from its digest.
TargetTag(tag) == Place(tag)

TagImage ==
    /\ pc = "tag"
    /\ \E found \in srcImages :
          /\ staged' = [staged EXCEPT ![TargetTag(found[2])] = found[1]]
          /\ srcImages' = srcImages \ {found}
    /\ UNCHANGED <<sourceVars, pc, callVars, tags, todo, unpushed, local, held,
                   targetVars, faults>>

\* r.push() of all tags the daemon has in the target repository. It fails if
\* there is none.
PushAll ==
    /\ pc = "tag"
    /\ srcImages = {}
    /\ unpushed' = {p \in Places : staged[p] # None}
    /\ pc' = IF unpushed' = {} THEN "error" ELSE "push"
    /\ UNCHANGED <<sourceVars, callVars, tags, todo, srcImages, daemonVars,
                   targetVars, faults>>

Push(place) ==
    /\ pc = "push"
    /\ place \in unpushed
    /\ target' = [target EXCEPT ![place] = staged[place]]
    /\ copied' = {tag \in copied : Place(tag) # place}
                 \cup {tag \in wanted : /\ Place(tag) = place
                                        /\ staged[place] \in Stands(tag)}
    /\ unpushed' = unpushed \ {place}
    /\ UNCHANGED <<sourceVars, pc, callVars, tags, todo, srcImages, daemonVars,
                   faults>>

Return ==
    /\ pc = "push"
    /\ unpushed = {}
    /\ pc' = "ok"
    /\ UNCHANGED <<sourceVars, callVars, loopVars, daemonVars, targetVars, faults>>

Relaying ==
    \/ Sync \/ ExpandTags \/ Fails \/ PullAll \/ PullsDone \/ List \/ TagImage
    \/ PushAll \/ Return
    \/ \E tag \in todo : Pull(tag)
    \/ \E place \in unpushed : Push(place)

Change ==
    /\ \E n \in Names, i \in Images \cup {None} : SourceChange(n, i)
    /\ UNCHANGED <<pc, callVars, loopVars, daemonVars, targetVars, faults>>

Next == Relaying \/ Change

Spec == Init /\ [][Next]_vars

\* The relay is called again and again, as it serves a periodic task, and the
\* daemon answers, which is an assumption: the code sets no time limit.
Fairness == WF_vars(Relaying)

FairSpec == Spec /\ Fairness

-----------------------------------------------------------------------------
(* Properties.                                                             *)

TypeOK ==
    /\ source \in [Names -> Images \cup {None}]
    /\ target \in [Places -> Images \cup {None}]
    /\ pc \in {"expand", "pull all", "pull", "list", "tag", "push", "ok", "error"}
    /\ ts \in TagSets
    /\ tags \subseteq Tag /\ wanted \subseteq Tag
    /\ todo \subseteq Tag /\ unpushed \subseteq Places
    /\ srcImages \subseteq Images \X Tag
    /\ local \in [Names -> Images \cup {None}]
    /\ held \subseteq Images
    /\ staged \in [Places -> Images \cup {None}]
    /\ faults \in 0 .. MaxFaults /\ changes \in 0 .. MaxChanges
    /\ copied \subseteq wanted
    /\ unlisted \in BOOLEAN

\* The Docker relay keeps the promise of a relay, though it works through a
\* daemon in which the images of earlier calls are still around, but for one
\* thing: a call in which local images could not be listed may end without an
\* error.
Phase ==
    IF pc = "expand" THEN "called"
    ELSE IF pc = "error" \/ (pc = "ok" /\ unlisted) THEN "error"
    ELSE IF pc = "ok" THEN "ok"
    ELSE "running"

Promise == INSTANCE Relay WITH call <- Phase, asked <- ts

KeepsPromise == Promise!Spec

\* Nothing is written to the target but the tags the tag set asks for.
OnlyWanted ==
    [][\A p \in Places : target'[p] # target[p]
          => \E t \in wanted : Place(t) = p]_vars

\* The tags that the tag set asks for are in the source.
Complete == \A t \in Expand(ts, Listed) : Current(t) # None

\* The tags that the tag set asks for are in the target as they are in the
\* source.
InStep == \A t \in Expand(ts, Listed) : target[Place(t)] = Current(t)

\* When the source has come to rest with all that is asked for and the failures
\* are over, the calls for a mapping bring the target in step, once none for
\* other mappings come in between, whatever failed calls have left in the
\* daemon.
CatchesUp == <>[][UNCHANGED ts]_vars /\ <>[]Complete => <>[]InStep
=============================================================================
