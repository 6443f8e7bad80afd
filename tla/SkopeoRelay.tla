---------------------------- MODULE SkopeoRelay -----------------------------
(***************************************************************************)
(* SkopeoRelay.Sync (internal/pkg/relays/skopeo/skopeorelay.go), call      *)
(* after call: one run of 'skopeo list-tags' if the tag set needs it, then *)
(* one run of 'skopeo copy' for each tag. Any of them may fail.            *)
(***************************************************************************)
EXTENDS ImageTags

CONSTANT MaxFaults      \* bound on the number of failures not due to a tag

ASSUME FaultsAssumption == MaxFaults \in Nat

VARIABLES
    target,     \* target[p]: the image at a place of the target, or None
    pc,         \* where the call is, or how the last one ended
    ts,         \* its tag set
    tags,       \* the expanded tags it has yet to copy
    tag,        \* the tag that is being copied
    image,      \* the image that skopeo has found for it in the source
    errs,       \* some copy has failed
    faults,     \* number of failures so far
    (* history *)
    wanted,     \* the expanded tags
    copied      \* those of them that were copied

callVars == <<ts, wanted>>
copyVars == <<tags, tag, image, errs>>
targetVars == <<target, copied>>
vars == <<sourceVars, pc, callVars, copyVars, targetVars, faults>>

NoTag == [name |-> None, digest |-> None]

Init ==
    /\ SourceInit
    /\ target = [p \in Places |-> None]
    /\ pc = "ok"
    /\ ts \in TagSets
    /\ tags = {}
    /\ tag = NoTag
    /\ image = None
    /\ errs = FALSE
    /\ faults = 0
    /\ wanted = {}
    /\ copied = {}

Fault == faults < MaxFaults /\ faults' = faults + 1

-----------------------------------------------------------------------------
(* A definition whose name ends in _ and a word is a mutant of the         *)
(* definition that follows it: the bug the word is about, which the        *)
(* properties must be able to tell from the code.                          *)

\* util.JoinRefsAndTag() for the source
SourceImage(t) == Current(t)

\* ... and for the target
TargetPlace_ByDigest(t) == IF t.digest # None THEN t.digest ELSE t.name
TargetPlace(t) == Place(t)

\* What is left of the loop after a failure
AfterFailure_Break == {}
AfterFailure == tags \ {tag}

\* 'errs' after a failure
NoteFailure_Forgotten == UNCHANGED errs
NoteFailure == errs' = TRUE

Sync ==
    /\ pc \in {"ok", "error"}
    /\ pc' = "expand"
    /\ ts' \in TagSets
    /\ tags' = {}
    /\ errs' = FALSE
    /\ wanted' = {}
    /\ copied' = {}
    /\ seen' = Now
    /\ UNCHANGED <<source, changes, ever, target, tag, image, faults>>

\* opt.Tags.Expand(), with a listing of all tags if there are filters to apply
\* or no tags given at all
ExpandTags ==
    /\ pc = "expand"
    /\ pc' = "loop"
    /\ tags' = Expand(ts, Listed)
    /\ wanted' = tags'
    /\ UNCHANGED <<sourceVars, targetVars, ts, tag, image, errs, faults>>

ExpandFails ==
    /\ pc = "expand"
    /\ NeedsExpansion(ts)
    /\ Fault
    /\ pc' = "error"
    /\ UNCHANGED <<sourceVars, callVars, copyVars, targetVars>>

\* The next iteration starts skopeo. The loop goes over the tags in string
\* order, of which nothing here depends.
StartCopy ==
    /\ pc = "loop"
    /\ tag' \in tags
    /\ image' = SourceImage(tag')
    /\ pc' = "copy"
    /\ UNCHANGED <<sourceVars, callVars, tags, errs, targetVars, faults>>

Write ==
    /\ target' = [target EXCEPT ![TargetPlace(tag)] = image]
    /\ copied' = copied \cup {tag}

\* skopeo ends without an error.
CopyDone ==
    /\ pc = "copy"
    /\ image # None
    /\ Write
    /\ tags' = tags \ {tag}
    /\ pc' = "loop"
    /\ UNCHANGED <<sourceVars, callVars, tag, image, errs, faults>>

\* skopeo ends with an error: for lack of the image in the source, or for any
\* other reason, which may have kept it from writing to the target or not.
CopyFails ==
    /\ pc = "copy"
    /\ \/ image = None /\ UNCHANGED <<targetVars, faults>>
       \/ Fault /\ UNCHANGED targetVars
       \/ image # None /\ Fault /\ Write
    /\ tags' = AfterFailure
    /\ NoteFailure
    /\ pc' = "loop"
    /\ UNCHANGED <<sourceVars, callVars, tag, image>>

Return ==
    /\ pc = "loop"
    /\ tags = {}
    /\ pc' = IF errs THEN "error" ELSE "ok"
    /\ UNCHANGED <<sourceVars, callVars, copyVars, targetVars, faults>>

Relaying ==
    \/ Sync \/ ExpandTags \/ ExpandFails
    \/ StartCopy \/ CopyDone \/ CopyFails \/ Return

Change ==
    /\ \E n \in Names, i \in Images \cup {None} : SourceChange(n, i)
    /\ UNCHANGED <<pc, callVars, copyVars, targetVars, faults>>

Next == Relaying \/ Change

Spec == Init /\ [][Next]_vars

\* The relay is called again and again, as it serves a periodic task, and each
\* run of skopeo ends, which is an assumption: the code sets no time limit.
Fairness == WF_vars(Relaying)

FairSpec == Spec /\ Fairness

-----------------------------------------------------------------------------
(* Properties.                                                             *)

TypeOK ==
    /\ source \in [Names -> Images \cup {None}]
    /\ target \in [Places -> Images \cup {None}]
    /\ pc \in {"expand", "loop", "copy", "ok", "error"}
    /\ ts \in TagSets
    /\ tags \subseteq wanted /\ wanted \subseteq Tag
    /\ tag \in Tag /\ (pc = "copy" => tag \in tags)
    /\ image \in Images \cup {None}
    /\ errs \in BOOLEAN
    /\ faults \in 0 .. MaxFaults /\ changes \in 0 .. MaxChanges
    /\ copied \subseteq wanted

\* Skopeo keeps the promise of a relay: a call without an error has brought all
\* wanted tags to the target, each as the source had it during the call.
Phase ==
    IF pc = "expand" THEN "called"
    ELSE IF pc \in {"loop", "copy"} THEN "running"
    ELSE pc

Promise == INSTANCE Relay WITH call <- Phase, asked <- ts

KeepsPromise == Promise!Spec

\* Nothing is written to the target but the tags the tag set asks for, be it
\* that some of them have a digest, or that the call fails on the way.
OnlyWanted ==
    [][\A p \in Places : target'[p] # target[p]
          => \E t \in wanted : Place(t) = p]_vars

\* The tags that the tag set asks for, as far as the source has them, are in
\* the target as they are in the source.
InStep ==
    \A t \in Expand(ts, Listed) :
        Current(t) # None => target[Place(t)] = Current(t)

\* When the source has come to rest and the failures are over, the calls for a
\* mapping bring the target in step, once none for other mappings come in
\* between. A tag that the source does not have keeps none of the others from
\* being synced.
CatchesUp == <>[][UNCHANGED ts]_vars => <>[]InStep
=============================================================================
